---- MODULE Spec2Model ----
(***************************************************************************)
(* Cross-venue arbitrage bot: the arbitrage engine (pure price arithmetic) *)
(* and the two-leg order executor, modelled from src/core and src/clients. *)
(*                                                                         *)
(* Money and prices are integers in thousandths of the price unit          *)
(* (One == 1000 stands for Decimal('1')).  Quotients are Python Decimal    *)
(* quotients: correctly rounded to DecimalPrec significant digits with     *)
(* ROUND_HALF_EVEN, kept as a digit sequence.                              *)
(***************************************************************************)
EXTENDS Integers, Sequences, FiniteSets, TLC

VARIABLES
    \* ---- ArbitrageEngine (src/core/arbitrage_engine.py) ----
    min_spread_pct,   \* ArbitrageEngine.min_spread_pct (a Dec)
    lim_prices,       \* quote of venue A handed to find_arbitrage
    poly_prices,      \* quote of venue B handed to find_arbitrage
    best,             \* what find_arbitrage delivered
    \* ---- OrderExecutor.execute_arbitrage (src/core/order_executor.py) ----
    opportunity,      \* argument: the Opportunity to execute
    bet_size,         \* argument: amount per leg
    match,            \* argument: the MarketMatch (two market dicts)
    pc,               \* where the caller of execute_arbitrage stands
    result,           \* <<r>> once an ExecutionResult r was returned
    raised,           \* <<e>> once exception e escaped to the caller
    timed_out,        \* the wait_for timeout branch was taken
    now,              \* seconds since the wait began
    lim_task,         \* asyncio task running _execute_limitless_order
    poly_task,        \* asyncio task running _execute_polymarket_order
    lim_log,          \* calls the executor made on the venue-A client
    poly_log,         \* calls the executor made on the venue-B client
    ordA,             \* the attempt's order at venue A: none/inflight/accepted
    ordB,             \* the attempt's order at venue B
    \* ---- the repository's venue clients (src/clients) ----
    lim_bound,        \* how LimitlessClient.place_order bound its parameters
    poly_order_args,  \* the OrderArgs PolymarketClient.place_order built
    poly_thread,      \* worker thread started by asyncio.to_thread
    \* ---- ArbitrageEngine's other methods, one call each ----
    spread_p1,        \* calculate_spread's first argument
    spread_p2,        \* calculate_spread's second argument
    spread_ret,       \* what calculate_spread returned
    max_bet,          \* ArbitrageEngine.max_bet, in cents
    slippage,         \* ArbitrageEngine.slippage, in hundredths of a percent
    bets,             \* what the calls of calculate_bet_size returned, in order
    est_cost,         \* total_cost of the opportunity given to estimate_profit
    est_bet,          \* bet_size given to estimate_profit, in cents
    profit,           \* what estimate_profit returned
    \* ---- MarketMonitor.find_matching_markets (src/core/market_monitor.py) ----
    max_strike_diff,  \* MarketMonitor.max_strike_diff, in cents
    mon_pc,           \* where the caller of find_matching_markets stands
    lim_fetch,        \* task running limitless.get_active_hourly_markets()
    poly_fetch,       \* task running polymarket.get_active_hourly_markets()
    matches,          \* the list find_matching_markets returned
    \* ---- AsyncCache (src/utils/cache.py) ----
    cache,            \* self._cache: key -> None (no entry) or <<CacheEntry>>
    cache_lock,       \* self._lock: 0 when free, else the task holding it
    clock,            \* datetime.now(), in clock units
    running,          \* the task the event loop is running, 0 between tasks
    ctask,            \* the tasks calling the cache: operation, position, locals
    ncalls,           \* calls made on the cache so far
    fetches,          \* invocations of the producer so far
    \* ---- ArbitrageBot (src/main.py) ----
    bot_running,      \* self.running
    run_pc,           \* where run() stands: loop/scanning/sleeping/stopped
    stats,            \* self.stats
    cycles            \* the calls of scan_and_execute so far, oldest first

engVars == <<min_spread_pct, lim_prices, poly_prices, best>>

inVars == <<opportunity, bet_size, match>>

clientVars == <<lim_bound, poly_order_args, poly_thread>>

execVars == <<opportunity, bet_size, match, pc, result, raised, timed_out,
              now, lim_task, poly_task, lim_log, poly_log, ordA, ordB,
              lim_bound, poly_order_args, poly_thread>>

calcVars == <<spread_p1, spread_p2, spread_ret, max_bet, slippage, bets,
              est_cost, est_bet, profit>>

monVars == <<max_strike_diff, mon_pc, lim_fetch, poly_fetch, matches>>

cacheVars == <<cache, cache_lock, clock, running, ctask, ncalls, fetches>>

drvVars == <<bot_running, run_pc, stats, cycles>>

\* the cache and the driver
restVars == <<cacheVars, drvVars>>

\* everything outside the cache
nonCacheVars == <<engVars, calcVars, monVars, execVars, drvVars>>

\* everything but the driver and the cache it sweeps
nonDrvVars == <<engVars, calcVars, monVars, execVars>>

\* everything outside the order executor
nonExecVars == <<engVars, calcVars, monVars, restVars>>

vars == <<min_spread_pct, lim_prices, poly_prices, best,
          opportunity, bet_size, match, pc, result, raised, timed_out,
          now, lim_task, poly_task, lim_log, poly_log, ordA, ordB,
          lim_bound, poly_order_args, poly_thread,
          spread_p1, spread_p2, spread_ret, max_bet, slippage, bets,
          est_cost, est_bet, profit,
          max_strike_diff, mon_pc, lim_fetch, poly_fetch, matches,
          cache, cache_lock, clock, running, ctask, ncalls, fetches,
          bot_running, run_pc, stats, cycles>>

-----------------------------------------------------------------------------
(* Bounds of the model *)

\* ask prices are drawn from 0.30, 0.35, ... 0.30 + 0.05 * MaxTick
MaxTick == 7

\* a venue's fetch returns at most MaxMarkets markets
MaxMarkets == 2

\* calculate_bet_size is called at most MaxCalls times
MaxCalls == 2

\* run() starts at most MaxCycles scan cycles
MaxCycles == 2

\* find_matching_markets returns at most MaxPairs matches to the driver
MaxPairs == 2

\* the cache's clock runs from 0 to MaxTime
MaxTime == 2

\* at most MaxCacheCalls calls are made on the cache
MaxCacheCalls == 3

-----------------------------------------------------------------------------
(* Python Decimal arithmetic *)

DecimalPrec == 28

One == 1000

\* an optional value: <<>> is Python's None, <<x>> is the value x
None == <<>>

Abs(x) == IF x < 0 THEN -x ELSE x

Sign(x) == IF x < 0 THEN -1 ELSE IF x = 0 THEN 0 ELSE 1

DecZero == [sign |-> 0, digits |-> <<>>, adj |-> 0]

\* scale a and b by powers of ten until b <= a < 10*b; e is the exponent of
\* the quotient's leading digit
RECURSIVE DecAlign(_, _, _)
DecAlign(a, b, e) ==
    IF a >= 10 * b THEN DecAlign(a, 10 * b, e + 1)
    ELSE IF a < b THEN DecAlign(10 * a, b, e - 1)
    ELSE <<a, b, e>>

\* the next n quotient digits of the long division with remainder r
RECURSIVE DecDigits(_, _, _)
DecDigits(r, b, n) ==
    IF n = 0 \/ r = 0 THEN <<>>
    ELSE <<(10 * r) \div b>> \o DecDigits((10 * r) % b, b, n - 1)

\* the remainder left after those n digits
RECURSIVE DecRem(_, _, _)
DecRem(r, b, n) ==
    IF n = 0 \/ r = 0 THEN r ELSE DecRem((10 * r) % b, b, n - 1)

\* add one unit in the last place; all nines give all zeros (carry out)
RECURSIVE DecIncr(_)
DecIncr(ds) ==
    IF ds = <<>> THEN <<>>
    ELSE IF ds[Len(ds)] = 9 THEN DecIncr(SubSeq(ds, 1, Len(ds) - 1)) \o <<0>>
    ELSE SubSeq(ds, 1, Len(ds) - 1) \o <<ds[Len(ds)] + 1>>

RECURSIVE DecStrip(_)
DecStrip(ds) ==
    IF ds # <<>> /\ ds[Len(ds)] = 0 THEN DecStrip(SubSeq(ds, 1, Len(ds) - 1))
    ELSE ds

\* a / b for positive integers, rounded half-even to DecimalPrec digits
DecQuot(a, b) ==
    LET al   == DecAlign(a, b, 0)
        d1   == al[1] \div al[2]
        r1   == al[1] % al[2]
        digs == <<d1>> \o DecDigits(r1, al[2], DecimalPrec - 1)
        rem  == DecRem(r1, al[2], DecimalPrec - 1)
        up   == \/ 2 * rem > al[2]
                \/ 2 * rem = al[2] /\ digs[Len(digs)] % 2 = 1
        inc  == DecIncr(digs)
    IN  IF ~up THEN [sign |-> 1, digits |-> DecStrip(digs), adj |-> al[3]]
        ELSE IF inc[1] = 0 THEN [sign |-> 1, digits |-> <<1>>, adj |-> al[3] + 1]
        ELSE [sign |-> 1, digits |-> DecStrip(inc), adj |-> al[3]]

\* Decimal division a / b of two exact decimals (b # 0)
DecDiv(a, b) ==
    IF a = 0 THEN DecZero
    ELSE [DecQuot(Abs(a), Abs(b)) EXCEPT !.sign = Sign(a) * Sign(b)]

\* x * Decimal('100'): exact, only the exponent moves
DecMul100(x) == IF x.sign = 0 THEN x ELSE [x EXCEPT !.adj = @ + 2]

\* s < t for digit strings read as fractions 0.s and 0.t (no trailing zeros)
RECURSIVE DigitsLess(_, _)
DigitsLess(s, t) ==
    IF t = <<>> THEN FALSE
    ELSE IF s = <<>> THEN TRUE
    ELSE IF s[1] # t[1] THEN s[1] < t[1]
    ELSE DigitsLess(Tail(s), Tail(t))

MagLess(x, y) ==
    \/ x.adj < y.adj
    \/ x.adj = y.adj /\ DigitsLess(x.digits, y.digits)

\* x < y on Decimals
DecLess(x, y) ==
    IF x.sign # y.sign THEN x.sign < y.sign
    ELSE IF x.sign = 0 THEN FALSE
    ELSE IF x.sign = 1 THEN MagLess(x, y)
    ELSE MagLess(y, x)

-----------------------------------------------------------------------------
(* ArbitrageEngine *)

\* 'if not price' : None or a zero Decimal
Falsy(p) == p = None \/ p[1] = 0

\* a spread taken relative to the first price instead of the mean
calculate_spread_OverFirst(price1, price2) ==
    IF Falsy(price1) \/ Falsy(price2) THEN DecZero
    ELSE IF price1[1] <= 0 \/ price2[1] <= 0 THEN DecZero
    ELSE DecMul100(DecDiv(Abs(price1[1] - price2[1]), price1[1]))

calculate_spread(price1, price2) ==
    IF Falsy(price1) \/ Falsy(price2) THEN DecZero
    ELSE IF price1[1] <= 0 \/ price2[1] <= 0 THEN DecZero
    ELSE LET mid2 == price1[1] + price2[1]   \* 2 * mid; halving is exact
         IN  IF mid2 = 0 THEN DecZero
             ELSE DecMul100(DecDiv(2 * Abs(price1[1] - price2[1]), mid2))

Absent == [kind |-> "absent"]

Raised(e) == [kind |-> "raised", error |-> e]

Opportunity(ty, ls, lp, ps, pp, tc, sp, pr) ==
    [kind |-> "opp", type |-> ty,
     limitless_side |-> ls, limitless_price |-> lp,
     polymarket_side |-> ps, polymarket_price |-> pp,
     total_cost |-> tc, spread_pct |-> sp, profit_pct |-> pr]

\* a profit line that forgets to divide by the cost
ProfitPct_OverOne(total_cost) == DecMul100(DecDiv(One - total_cost, One))

\* the profit line of _evaluate_scenario
ProfitPct(total_cost) == DecMul100(DecDiv(One - total_cost, total_cost))

\* a guard that lets a cost of exactly 1 through
CostTooHigh_Strict(total_cost) == total_cost > One

\* the guard 'total_cost >= 1' of _evaluate_scenario
CostTooHigh(total_cost) == total_cost >= One

\* a threshold test that also turns away a spread equal to the threshold
BelowThreshold_OrEqual(spread, min_spread) == ~DecLess(min_spread, spread)

\* 'if spread < self.min_spread_pct'
BelowThreshold(spread, min_spread) == DecLess(spread, min_spread)

_evaluate_scenario(min_spread, lim_price, poly_price, scenario_type, lim_side, poly_side) ==
    IF Falsy(lim_price) \/ Falsy(poly_price) THEN Absent
    ELSE LET total_cost == lim_price[1] + poly_price[1]
         IN  IF CostTooHigh(total_cost) THEN Absent
             ELSE IF total_cost = 0 THEN Raised("DivisionByZero")
             ELSE LET profit_pct   == ProfitPct(total_cost)
                      poly_implied == <<One - poly_price[1]>>
                      spread       == calculate_spread(lim_price, poly_implied)
                  IN  IF BelowThreshold(spread, min_spread) THEN Absent
                      ELSE Opportunity(scenario_type, lim_side, lim_price[1],
                                       poly_side, poly_price[1], total_cost,
                                       spread, profit_pct)

\* max(opportunities, key=profit_pct): the first of the largest
BestOf(opp1, opp2) ==
    IF DecLess(opp1.profit_pct, opp2.profit_pct) THEN opp2 ELSE opp1

find_arbitrage(min_spread, lim, poly) ==
    LET opp1 == _evaluate_scenario(min_spread, lim.yes_ask, poly.no_ask,
                    "YES_LIMITLESS_NO_POLYMARKET", "YES", "NO")
        opp2 == _evaluate_scenario(min_spread, lim.no_ask, poly.yes_ask,
                    "NO_LIMITLESS_YES_POLYMARKET", "NO", "YES")
    IN  IF opp1.kind = "raised" THEN opp1
        ELSE IF opp2.kind = "raised" THEN opp2
        ELSE IF opp1.kind = "opp" /\ opp2.kind = "opp" THEN BestOf(opp1, opp2)
        ELSE IF opp1.kind = "opp" THEN opp1
        ELSE IF opp2.kind = "opp" THEN opp2
        ELSE Absent

\* round n + f to an integer, ROUND_HALF_EVEN: n is the floor and half says
\* whether the fraction f is below (-1), equal to (0) or above (1) one half
RoundHalfEven(n, half) ==
    IF half < 0 THEN n
    ELSE IF half > 0 THEN n + 1
    ELSE IF n % 2 = 0 THEN n ELSE n + 1

\* the exact quotient num / den (den > 0) quantized to an integer
Quantize(num, den) ==
    LET r == num % den
    IN  RoundHalfEven(num \div den,
                      IF 2 * r < den THEN -1 ELSE IF 2 * r = den THEN 0 ELSE 1)

\* the integer part of |x|
RECURSIVE DecInt(_, _, _)
DecInt(ds, n, acc) ==
    IF n = 0 THEN acc
    ELSE IF ds = <<>> THEN DecInt(ds, n - 1, 10 * acc)
    ELSE DecInt(Tail(ds), n - 1, 10 * acc + ds[1])

\* the digits of |x| after the decimal point
RECURSIVE DecFrac(_, _)
DecFrac(ds, e) ==
    IF e < -1 THEN <<0>> \o DecFrac(ds, e + 1)
    ELSE IF e = -1 THEN ds
    ELSE IF ds = <<>> THEN <<>>
    ELSE DecFrac(Tail(ds), e - 1)

\* a fraction 0.f against one half: -1 below, 0 equal, 1 above
HalfCmp(f) ==
    IF f = <<>> THEN -1
    ELSE IF f[1] > 5 THEN 1
    ELSE IF f[1] < 5 THEN -1
    ELSE IF \A i \in 2..Len(f) : f[i] = 0 THEN 0
    ELSE 1

\* (x - k).quantize(Decimal('1')) for a Decimal x and an integer k; the
\* subtraction is exact for the operands estimate_profit is given here
QuantizeDiff(x, k) ==
    IF x.sign = 0 THEN -k
    ELSE LET i == DecInt(x.digits, x.adj + 1, 0)
             f == DecFrac(x.digits, x.adj)
             z == \A j \in 1..Len(f) : f[j] = 0
         IN  IF z THEN x.sign * i - k
             ELSE IF x.sign = 1 THEN RoundHalfEven(i - k, HalfCmp(f))
             ELSE RoundHalfEven(-i - 1 - k, -HalfCmp(f))

\* slippage is kept in hundredths of a percent, so slippage / 100 is
\* slip / SlipScale and every step up to quantize is an exact Decimal
SlipScale == 10000

\* a slippage factor that grows with the tolerance
SlippageFactor_Plus(slip) == SlipScale + slip

\* 'self._one - (self.slippage / self._hundred)', in units of 1 / SlipScale
SlippageFactor(slip) == SlipScale - slip

\* cents per leg; the opportunity is accepted and not looked at
calculate_bet_size(mb, slip, opp) ==
    Quantize(mb * SlippageFactor(slip), 2 * SlipScale)

\* a payout that multiplies by the cost
TotalPayout_Times(bet, total_cost) == DecDiv(2 * bet * total_cost, One)

\* 'bet_size * 2 / opportunity.total_cost', in cents
TotalPayout(bet, total_cost) == DecDiv(2 * bet * One, total_cost)

\* cents; a zero total_cost raises decimal.DivisionByZero
estimate_profit(total_cost, bet) ==
    IF total_cost = 0 THEN Raised("DivisionByZero")
    ELSE [kind |-> "value",
          v |-> QuantizeDiff(TotalPayout(bet, total_cost), 2 * bet)]

\* ask prices a venue quote can carry: absent, negative, zero, or a tick
PriceVals ==
    {None, <<-400>>, <<0>>} \cup {<<300 + 50 * k>> : k \in 0..MaxTick}

Quotes == [yes_ask : PriceVals, no_ask : PriceVals]

\* BotConfig.MIN_SPREAD_PCT is 3.0; 0 is the most permissive setting; 40 is
\* the spread of a 0.40 ask against a 0.60 implied price
MinSpreadVals == {DecZero, DecDiv(30, 10), DecDiv(40, 1)}

Pending == [kind |-> "pending"]

-----------------------------------------------------------------------------
(* OrderExecutor: values *)

\* what a leg can hand back: Python None, an empty dict, a confirmation
\* dict, or a truthy JSON value that is not a dict (e.g. a list)
ConfA == "lim_conf"

ConfB == "poly_conf"

RetVals(conf) == {"None", "EmptyDict", conf, "NonDict"}

\* bool(x) of a leg's return value
Truthy(v) == v \notin {"None", "EmptyDict"}

ExecutionResult(success, lim_order, poly_order, error, bet) ==
    [success |-> success, limitless_order |-> lim_order,
     polymarket_order |-> poly_order, error |-> error, bet_size |-> bet]

\* ExecutionResult.both_filled
both_filled(r) == Truthy(r.limitless_order) /\ Truthy(r.polymarket_order)

\* state: none, ready, calling, signing, backoff, done, failed, cancelled;
\* threw: place_order raised inside the leg; attempts: runs of the
\* client's place_order body; interrupted: what a cancel broke off
NoTask == [state |-> "none", args |-> <<>>, ret |-> "None", threw |-> FALSE,
           attempts |-> 0, wake |-> 0, interrupted |-> "none"]

NewTask(args) == [NoTask EXCEPT !.state = "ready", !.args = args]

Done(t) == t.state = "done"

\* a task is still to run or running
Live(t) == t.state \notin {"none", "done", "failed", "cancelled"}

\* Task.cancel() as issued by wait_for on timeout
Cancel(t) ==
    IF Live(t) THEN [t EXCEPT !.state = "cancelled", !.interrupted = t.state]
    ELSE t

PlaceOrderCall(args) == [method |-> "place_order", args |-> args]

-----------------------------------------------------------------------------
(* OrderExecutor: inputs *)

MinSpread3 == DecDiv(30, 10)

\* the opportunities the engine hands over, one per scenario
OppInputs ==
    { _evaluate_scenario(MinSpread3, <<400>>, <<450>>,
          "YES_LIMITLESS_NO_POLYMARKET", "YES", "NO"),
      _evaluate_scenario(MinSpread3, <<300>>, <<600>>,
          "NO_LIMITLESS_YES_POLYMARKET", "NO", "YES") }

\* 4.98 per leg: BotConfig's 10.0 less 0.5 % slippage, halved
BetSizeVals == {4980}

\* venue-A market dicts, with and without the 'id' key
LimMarkets == {[id |-> "lim-1", title |-> "t"], [title |-> "t"]}

TokNo == [token_id |-> "tok-no", outcome |-> "No"]

TokYes == [token_id |-> "tok-yes", outcome |-> "Yes"]

\* a token dict without the 'token_id' key
TokBare == [outcome |-> "No"]

\* a token entry that is not a dict (a bare string in the venue's JSON)
TokStr == [nondict |-> "tok-as-string"]

TokenLists ==
    {<<>>, <<TokNo>>, <<TokNo, TokYes>>, <<TokBare, TokYes>>,
     <<TokNo, TokStr>>, <<TokStr, TokYes>>}

\* venue-B market dicts; the first has no 'tokens' key
PolyMarkets ==
    {[condition_id |-> "c-1"]}
        \cup {[condition_id |-> "c-1", tokens |-> ts] : ts \in TokenLists}

Matches == [limitless : LimMarkets, polymarket : PolyMarkets]

-----------------------------------------------------------------------------
(* OrderExecutor: execute_arbitrage *)

Upper(s) == CASE s = "yes" -> "YES" [] s = "no" -> "NO" [] s = "buy" -> "BUY"
              [] OTHER -> s

\* a token check that only rejects the empty list
TokensMalformed_EmptyOnly(tokens) == tokens = <<>>

\* 'if not tokens or len(tokens) < 2'
TokensMalformed(tokens) == tokens = <<>> \/ Len(tokens) < 2

\* <<id>>, None, or the exception that escapes the function
_get_polymarket_token_id(polymarket_market, side) ==
    LET tokens == IF "tokens" \in DOMAIN polymarket_market
                  THEN polymarket_market.tokens ELSE <<>>
        token_idx == IF Upper(side) = "YES" THEN 1 ELSE 0
    IN  IF TokensMalformed(tokens) THEN [kind |-> "value", v |-> None]
        ELSE IF token_idx + 1 > Len(tokens)        \* IndexError, threw
             THEN [kind |-> "value", v |-> None]
        ELSE LET entry == tokens[token_idx + 1]
             IN  IF "nondict" \in DOMAIN entry     \* str has no .get
                 THEN Raised("AttributeError")
                 ELSE IF "token_id" \in DOMAIN entry
                      THEN [kind |-> "value", v |-> <<entry.token_id>>]
                      ELSE [kind |-> "value", v |-> None]

InvalidTokenResult ==
    ExecutionResult(FALSE, "None", "None", "Invalid Polymarket token ID", None)

\* execute_arbitrage from its call to the await of wait_for
ExecuteArbitrage ==
    /\ pc = "idle"
    /\ LET tok == _get_polymarket_token_id(match.polymarket,
                                           opportunity.polymarket_side)
       IN  IF tok.kind = "raised"
           THEN /\ pc' = "raised"
                /\ raised' = <<tok.error>>
                /\ UNCHANGED <<result, lim_task, poly_task>>
           ELSE IF tok.v = None
           THEN /\ pc' = "returned"
                /\ result' = <<InvalidTokenResult>>
                /\ UNCHANGED <<raised, lim_task, poly_task>>
           ELSE IF "id" \notin DOMAIN match.limitless   \* match.limitless_id
           THEN /\ pc' = "raised"
                /\ raised' = <<"KeyError">>
                /\ UNCHANGED <<result, lim_task, poly_task>>
           ELSE /\ pc' = "awaiting"
                /\ lim_task' = NewTask(<<match.limitless.id,
                                         opportunity.limitless_side,
                                         bet_size,
                                         opportunity.limitless_price>>)
                /\ poly_task' = NewTask(<<tok.v[1], "BUY", bet_size,
                                          opportunity.polymarket_price>>)
                /\ UNCHANGED <<result, raised>>
    /\ UNCHANGED <<inVars, timed_out, now, lim_log, poly_log, ordA, ordB,
                   clientVars, nonExecVars>>

\* a slip in the success line: 'or' for 'and'
Success_Or(lim_result, poly_result) == Truthy(lim_result) \/ Truthy(poly_result)

\* 'success = bool(lim_result and poly_result)'
Success(lim_result, poly_result) == Truthy(lim_result) /\ Truthy(poly_result)

\* the value built on the normal path, lines 162-181; the success branch
\* logs lim_result.get / poly_result.get, which a non-dict does not have
NormalResult(lim_result, poly_result, bet) ==
    IF Success(lim_result, poly_result)
       /\ (lim_result = "NonDict" \/ poly_result = "NonDict")
    THEN ExecutionResult(FALSE, "None", "None", "AttributeError", <<bet>>)
    ELSE ExecutionResult(Success(lim_result, poly_result),
                         lim_result, poly_result, "None", <<bet>>)

\* a timeout branch that hands back what the finished legs returned
TimeoutResult_Partial(lim, poly, bet) ==
    ExecutionResult(FALSE, IF Done(lim) THEN lim.ret ELSE "None",
                    IF Done(poly) THEN poly.ret ELSE "None",
                    "Execution timeout", <<bet>>)

\* 'except asyncio.TimeoutError', lines 183-193
TimeoutResult(lim, poly, bet) ==
    ExecutionResult(FALSE, "None", "None", "Execution timeout", <<bet>>)

\* 'except Exception', lines 195-204
ErrorResult(bet) ==
    ExecutionResult(FALSE, "None", "None", "leg exception", <<bet>>)

\* gather completes: both legs returned, or (return_exceptions=False) one
\* leg raised
GatherDone ==
    /\ pc = "awaiting"
    /\ \/ Done(lim_task) /\ Done(poly_task)
       \/ lim_task.state = "failed"
       \/ poly_task.state = "failed"
    /\ pc' = "returned"
    /\ result' = IF lim_task.state = "failed" \/ poly_task.state = "failed"
                 THEN <<ErrorResult(bet_size)>>
                 ELSE <<NormalResult(lim_task.ret, poly_task.ret, bet_size)>>
    /\ UNCHANGED <<inVars, raised, timed_out, now, lim_task, poly_task,
                   lim_log, poly_log, ordA, ordB, clientVars, nonExecVars>>

\* OrderExecutor.__init__ default, and main.py's REQUEST_TIMEOUT + 4
ExecutionTimeout == 12

GatherPending ==
    ~ \/ Done(lim_task) /\ Done(poly_task)
      \/ lim_task.state = "failed"
      \/ poly_task.state = "failed"

\* wait_for's timer fires before gather completed: both tasks are
\* cancelled and TimeoutError reaches the except branch
Timeout ==
    /\ pc = "awaiting"
    /\ now = ExecutionTimeout
    /\ GatherPending
    /\ lim_task' = Cancel(lim_task)
    /\ poly_task' = Cancel(poly_task)
    /\ timed_out' = TRUE
    /\ pc' = "returned"
    /\ result' = <<TimeoutResult(lim_task, poly_task, bet_size)>>
    /\ UNCHANGED <<inVars, raised, now, lim_log, poly_log, ordA, ordB,
                   clientVars, nonExecVars>>

\* a task that the event loop runs without waiting for time to pass
Runnable(t) ==
    \/ t.state = "ready"
    \/ t.state = "backoff" /\ t.wake <= now

\* a second passes while the caller waits; runnable tasks run first
Tick ==
    /\ pc = "awaiting"
    /\ now < ExecutionTimeout
    /\ GatherPending
    /\ ~Runnable(lim_task) /\ ~Runnable(poly_task)
    /\ now' = now + 1
    /\ UNCHANGED <<inVars, pc, result, raised, timed_out, lim_task,
                   poly_task, lim_log, poly_log, ordA, ordB, clientVars,
                   nonExecVars>>

-----------------------------------------------------------------------------
(* The two legs against clients that honour the call the executor makes:  *)
(* place_order(id, side, amount, price) returns a value or raises          *)

\* a leg without its try/except: the exception leaves the task
LegCaught_Propagates(t) == [t EXCEPT !.state = "failed", !.threw = TRUE]

\* 'except Exception: return None' of both _execute_*_order
LegCaught(t) == [t EXCEPT !.state = "done", !.ret = "None", !.threw = TRUE]

\* _execute_limitless_order starts: place_order is called and awaited
LimStart ==
    /\ lim_task.state = "ready"
    /\ lim_task' = [lim_task EXCEPT !.state = "calling", !.attempts = 1]
    /\ lim_log' = Append(lim_log, PlaceOrderCall(lim_task.args))
    /\ ordA' = "inflight"
    /\ UNCHANGED <<inVars, pc, result, raised, timed_out, now, poly_task,
                   poly_log, ordB, clientVars, nonExecVars>>

\* place_order returns v; a truthy answer is the venue's confirmation
LimReturn ==
    /\ lim_task.state = "calling"
    /\ \E v \in RetVals(ConfA) :
          /\ Truthy(v) => ordA = "accepted"
          /\ lim_task' = [lim_task EXCEPT !.state = "done", !.ret = v]
    /\ UNCHANGED <<inVars, pc, result, raised, timed_out, now, poly_task,
                   lim_log, poly_log, ordA, ordB, clientVars, nonExecVars>>

\* place_order raises
LimRaise ==
    /\ lim_task.state = "calling"
    /\ lim_task' = LegCaught(lim_task)
    /\ UNCHANGED <<inVars, pc, result, raised, timed_out, now, poly_task,
                   lim_log, poly_log, ordA, ordB, clientVars, nonExecVars>>

PolyStart ==
    /\ poly_task.state = "ready"
    /\ poly_task' = [poly_task EXCEPT !.state = "calling", !.attempts = 1]
    /\ poly_log' = Append(poly_log, PlaceOrderCall(poly_task.args))
    /\ ordB' = "inflight"
    /\ UNCHANGED <<inVars, pc, result, raised, timed_out, now, lim_task,
                   lim_log, ordA, clientVars, nonExecVars>>

PolyReturn ==
    /\ poly_task.state = "calling"
    /\ \E v \in RetVals(ConfB) :
          /\ Truthy(v) => ordB = "accepted"
          /\ poly_task' = [poly_task EXCEPT !.state = "done", !.ret = v]
    /\ UNCHANGED <<inVars, pc, result, raised, timed_out, now, lim_task,
                   lim_log, poly_log, ordA, ordB, clientVars, nonExecVars>>

PolyRaise ==
    /\ poly_task.state = "calling"
    /\ poly_task' = LegCaught(poly_task)
    /\ UNCHANGED <<inVars, pc, result, raised, timed_out, now, lim_task,
                   lim_log, poly_log, ordA, ordB, clientVars, nonExecVars>>

\* a venue takes an order that was sent to it, whether or not anybody
\* still waits for the answer
VenueAAccepts ==
    /\ ordA = "inflight"
    /\ ordA' = "accepted"
    /\ UNCHANGED <<inVars, pc, result, raised, timed_out, now, lim_task,
                   poly_task, lim_log, poly_log, ordB, clientVars, nonExecVars>>

VenueBAccepts ==
    /\ ordB = "inflight"
    /\ ordB' = "accepted"
    /\ UNCHANGED <<inVars, pc, result, raised, timed_out, now, lim_task,
                   poly_task, lim_log, poly_log, ordA, clientVars, nonExecVars>>

-----------------------------------------------------------------------------
(* The two legs against the repository's clients, as main.py wires them   *)

\* @retry(stop=stop_after_attempt(3), ...) on both place_order methods
MaxAttempts == 3

\* wait_exponential(multiplier=1, min=1, max=8) after the n-th failure
RetryWait(n) ==
    LET e == 2 ^ (n - 1)
    IN  IF e < 1 THEN 1 ELSE IF e > 8 THEN 8 ELSE e

\* the retry wrapper after a failed run of the body: sleep and run again,
\* or give up with RetryError, which the leg's 'except Exception' catches
AttemptFailed(t) ==
    IF t.attempts >= MaxAttempts THEN LegCaught(t)
    ELSE [t EXCEPT !.state = "backoff", !.wake = now + RetryWait(t.attempts)]

\* positional parameters of LimitlessClient.place_order without a default
LimitlessPlaceOrderParams == <<"market_id", "outcome", "side", "amount", "price">>

\* Python's binding of positional arguments: a missing required parameter
\* is a TypeError
BindLimitless(args) ==
    IF Len(args) < Len(LimitlessPlaceOrderParams) THEN Raised("TypeError")
    ELSE [kind |-> "bound", market_id |-> args[1], outcome |-> args[2],
          side |-> args[3], amount |-> args[4], price |-> args[5]]

\* one run of LimitlessClient.place_order under the retry wrapper, called
\* as place_order(market_id, side, bet_size, price)
LimAttempt ==
    /\ Runnable(lim_task)
    /\ LET t     == [lim_task EXCEPT !.attempts = @ + 1]
           bound == BindLimitless(lim_task.args)
       IN  /\ lim_bound' = bound
           /\ IF bound.kind = "raised"
              THEN /\ lim_task' = AttemptFailed(t)
                   /\ ordA' = ordA
              ELSE /\ lim_task' = [t EXCEPT !.state = "calling"]
                   /\ ordA' = "inflight"        \* session.post(url, json=body)
    /\ lim_log' = IF lim_task.state = "ready"
                  THEN Append(lim_log, PlaceOrderCall(lim_task.args))
                  ELSE lim_log
    /\ UNCHANGED <<inVars, pc, result, raised, timed_out, now, poly_task,
                   poly_log, ordB, poly_order_args, poly_thread, nonExecVars>>

\* names bound in polymarket_client.py when place_order runs: the module's
\* imports and the two imports inside the function
PolymarketNames ==
    {"asyncio", "logging", "Dict", "List", "Optional", "Decimal", "retry",
     "stop_after_attempt", "wait_exponential", "logger", "PolymarketClient",
     "OrderArgs", "BUY", "SELL"}

\* float(Decimal): the nearest double, kept apart from the Decimal
Float(x) == [float |-> x]

OrderArgs(token_id, side, amount, price) ==
    [kind |-> "OrderArgs", token_id |-> token_id, price |-> Float(price),
     size |-> Float(amount),
     side |-> IF Upper(side) = "BUY" THEN "BUY" ELSE "SELL",
     fee_rate_bps |-> 0]

\* one run of PolymarketClient.place_order up to the first to_thread:
\* _get_client() (which raises when the CLOB library cannot be set up),
\* then OrderArgs and create_order on a worker thread
PolyAttempt ==
    /\ Runnable(poly_task)
    /\ poly_thread = "idle"
    /\ LET t == [poly_task EXCEPT !.attempts = @ + 1]
       IN  \E client_ok \in BOOLEAN :
              IF client_ok
              THEN /\ poly_order_args' = OrderArgs(t.args[1], t.args[2],
                                                   t.args[3], t.args[4])
                   /\ poly_thread' = "create_order"
                   /\ poly_task' = [t EXCEPT !.state = "signing"]
              ELSE /\ poly_task' = AttemptFailed(t)
                   /\ UNCHANGED <<poly_order_args, poly_thread>>
    /\ poly_log' = IF poly_task.state = "ready"
                   THEN Append(poly_log, PlaceOrderCall(poly_task.args))
                   ELSE poly_log
    /\ UNCHANGED <<inVars, pc, result, raised, timed_out, now, lim_task,
                   lim_log, ordA, ordB, lim_bound, nonExecVars>>

\* create_order comes back (signed order or exception); on success the
\* body goes on to 'client.post_order, signed_order, OrderType.GTC', whose
\* arguments are evaluated before any thread is started
PolyCreateOrderReturns ==
    /\ poly_task.state = "signing"
    /\ poly_thread = "create_order"
    /\ \E signed \in BOOLEAN :
          IF signed /\ "OrderType" \in PolymarketNames
          THEN /\ poly_thread' = "post_order"
               /\ ordB' = "inflight"
               /\ poly_task' = [poly_task EXCEPT !.state = "calling"]
          ELSE /\ poly_thread' = "idle"       \* NameError, or create_order's
               /\ ordB' = ordB
               /\ poly_task' = AttemptFailed(poly_task)
    /\ UNCHANGED <<inVars, pc, result, raised, timed_out, now, lim_task,
                   lim_log, poly_log, ordA, lim_bound, poly_order_args,
                   nonExecVars>>

\* a worker thread cannot be cancelled: after the task was cancelled it
\* runs to its end and its result is dropped
PolyThreadExit ==
    /\ poly_task.state = "cancelled"
    /\ poly_thread # "idle"
    /\ poly_thread' = "idle"
    /\ UNCHANGED <<inVars, pc, result, raised, timed_out, now, lim_task,
                   poly_task, lim_log, poly_log, ordA, ordB, lim_bound,
                   poly_order_args, nonExecVars>>

-----------------------------------------------------------------------------
(* MarketMonitor *)

\* a title is the sequence of its characters
IsDigit(c) == c \in {"0", "1", "2", "3", "4", "5", "6", "7", "8", "9"}

DigitVal(c) ==
    CASE c = "0" -> 0 [] c = "1" -> 1 [] c = "2" -> 2 [] c = "3" -> 3
      [] c = "4" -> 4 [] c = "5" -> 5 [] c = "6" -> 6 [] c = "7" -> 7
      [] c = "8" -> 8 [] c = "9" -> 9

\* '\s'
IsSpace(c) == c \in {" ", "\t", "\n"}

\* the character at position i, "" past the end
At(t, i) == IF i >= 1 /\ i <= Len(t) THEN t[i] ELSE ""

\* the index of the last character of the greedy run '\d+' that starts at i
RECURSIVE DigitsEnd(_, _)
DigitsEnd(t, i) == IF IsDigit(At(t, i + 1)) THEN DigitsEnd(t, i + 1) ELSE i

\* '(?:,\d{3})*' after index j: the index of the last character matched
RECURSIVE CommaGroupsEnd(_, _)
CommaGroupsEnd(t, j) ==
    IF /\ At(t, j + 1) = ","
       /\ IsDigit(At(t, j + 2)) /\ IsDigit(At(t, j + 3)) /\ IsDigit(At(t, j + 4))
    THEN CommaGroupsEnd(t, j + 4)
    ELSE j

\* '(?:\.\d{2})?' after index j
CentsEnd(t, j) ==
    IF At(t, j + 1) = "." /\ IsDigit(At(t, j + 2)) /\ IsDigit(At(t, j + 3))
    THEN j + 3 ELSE j

\* STRIKE_REGEX.search(title): <<first, last>> of group(1), or None
StrikeSearch(t) ==
    LET starts == {i \in 1..Len(t) : t[i] = "$" /\ IsDigit(At(t, i + 1))}
    IN  IF starts = {} THEN None
        ELSE LET i == CHOOSE k \in starts : \A m \in starts : k <= m
                 j == CommaGroupsEnd(t, DigitsEnd(t, i + 1))
             IN  <<i + 1, CentsEnd(t, j)>>

\* Decimal(group(1).replace(',', '')), in cents
RECURSIVE StrikeValue(_, _, _, _)
StrikeValue(t, i, last, acc) ==
    IF i > last THEN 100 * acc
    ELSE IF t[i] = "," THEN StrikeValue(t, i + 1, last, acc)
    ELSE IF t[i] = "."
         THEN 100 * acc + 10 * DigitVal(t[i + 1]) + DigitVal(t[i + 2])
    ELSE StrikeValue(t, i + 1, last, 10 * acc + DigitVal(t[i]))

\* '\s*UTC' from index i on
RECURSIVE UtcAt(_, _)
UtcAt(t, i) ==
    IF IsSpace(At(t, i)) THEN UtcAt(t, i + 1)
    ELSE At(t, i) = "U" /\ At(t, i + 1) = "T" /\ At(t, i + 2) = "C"

\* ':\d{2}\s*UTC' from index i on
MinutesAt(t, i) ==
    /\ At(t, i) = ":"
    /\ IsDigit(At(t, i + 1)) /\ IsDigit(At(t, i + 2))
    /\ UtcAt(t, i + 3)

\* the length of group(1) if TIME_REGEX matches at i, else 0; '\d{1,2}' is
\* greedy and gives a digit back when the rest does not match
TimeMatchAt(t, i) ==
    IF ~IsDigit(At(t, i)) THEN 0
    ELSE IF IsDigit(At(t, i + 1)) /\ MinutesAt(t, i + 2) THEN 5
    ELSE IF MinutesAt(t, i + 1) THEN 4
    ELSE 0

\* TIME_REGEX.search(title).group(1), or None
TimeSearch(t) ==
    LET starts == {i \in 1..Len(t) : TimeMatchAt(t, i) > 0}
    IN  IF starts = {} THEN None
        ELSE LET i == CHOOSE k \in starts : \A m \in starts : k <= m
             IN  <<SubSeq(t, i, i + TimeMatchAt(t, i) - 1)>>

\* <<strike, time_str>> or None
parse_strike_and_time(title) ==
    LET strike_match == StrikeSearch(title)
        time_match   == TimeSearch(title)
    IN  IF strike_match = None \/ time_match = None THEN None
        ELSE <<StrikeValue(title, strike_match[1], strike_match[2], 0),
               time_match[1]>>

\* market.get(title_key, '')
GetTitle(market, title_key) ==
    IF title_key \in DOMAIN market THEN market[title_key] ELSE <<>>

\* a map that puts a new time slot in front of the older ones
MapAppend_Front(time_map, time_slot, entry) ==
    IF \E i \in 1..Len(time_map) : time_map[i].slot = time_slot
    THEN [i \in 1..Len(time_map) |->
            IF time_map[i].slot = time_slot
            THEN [time_map[i] EXCEPT !.entries = Append(@, entry)]
            ELSE time_map[i]]
    ELSE <<[slot |-> time_slot, entries |-> <<entry>>]>> \o time_map

\* time_map[time_slot].append((strike, market)); the dict keeps its keys in
\* the order they were first inserted
MapAppend(time_map, time_slot, entry) ==
    IF \E i \in 1..Len(time_map) : time_map[i].slot = time_slot
    THEN [i \in 1..Len(time_map) |->
            IF time_map[i].slot = time_slot
            THEN [time_map[i] EXCEPT !.entries = Append(@, entry)]
            ELSE time_map[i]]
    ELSE Append(time_map, [slot |-> time_slot, entries |-> <<entry>>])

\* a loop that gives up at the first title that does not parse
RECURSIVE BuildFrom_StopAtUnparsed(_, _, _)
BuildFrom_StopAtUnparsed(time_map, markets, title_key) ==
    IF markets = <<>> THEN time_map
    ELSE LET parsed == parse_strike_and_time(GetTitle(markets[1], title_key))
         IN  IF parsed = None THEN time_map
             ELSE BuildFrom_StopAtUnparsed(
                      MapAppend(time_map, parsed[2], <<parsed[1], markets[1]>>),
                      Tail(markets), title_key)

\* 'for market in markets'
RECURSIVE BuildFrom(_, _, _)
BuildFrom(time_map, markets, title_key) ==
    IF markets = <<>> THEN time_map
    ELSE LET parsed == parse_strike_and_time(GetTitle(markets[1], title_key))
         IN  BuildFrom(IF parsed = None THEN time_map
                       ELSE MapAppend(time_map, parsed[2],
                                      <<parsed[1], markets[1]>>),
                       Tail(markets), title_key)

_build_time_strike_map(markets, title_key) ==
    BuildFrom(<<>>, markets, title_key)

MarketMatch(lim_market, poly_market, lim_strike, poly_strike, diff, slot) ==
    [limitless |-> lim_market, polymarket |-> poly_market,
     strike_limitless |-> lim_strike, strike_polymarket |-> poly_strike,
     strike_diff |-> diff, time |-> slot]

\* a threshold test that leaves the boundary out
StrikeWithin_Exclusive(strike_diff, max_diff) == strike_diff < max_diff

\* 'if strike_diff <= self.max_strike_diff'
StrikeWithin(strike_diff, max_diff) == strike_diff <= max_diff

\* an inner loop that stops at the first venue-B market within the threshold
RECURSIVE PolyLoop_FirstOnly(_, _, _, _)
PolyLoop_FirstOnly(lim_entry, poly_entries, time_slot, max_diff) ==
    IF poly_entries = <<>> THEN <<>>
    ELSE LET strike_diff == Abs(lim_entry[1] - poly_entries[1][1])
         IN  IF StrikeWithin(strike_diff, max_diff)
             THEN <<MarketMatch(lim_entry[2], poly_entries[1][2], lim_entry[1],
                                poly_entries[1][1], strike_diff, time_slot)>>
             ELSE PolyLoop_FirstOnly(lim_entry, Tail(poly_entries),
                                     time_slot, max_diff)

\* 'for poly_strike, poly_market in poly_map[time_slot]'
RECURSIVE PolyLoop(_, _, _, _)
PolyLoop(lim_entry, poly_entries, time_slot, max_diff) ==
    IF poly_entries = <<>> THEN <<>>
    ELSE LET strike_diff == Abs(lim_entry[1] - poly_entries[1][1])
         IN  (IF StrikeWithin(strike_diff, max_diff)
              THEN <<MarketMatch(lim_entry[2], poly_entries[1][2], lim_entry[1],
                                 poly_entries[1][1], strike_diff, time_slot)>>
              ELSE <<>>)
             \o PolyLoop(lim_entry, Tail(poly_entries), time_slot, max_diff)

\* 'for lim_strike, lim_market in lim_map[time_slot]'
RECURSIVE LimLoop(_, _, _, _)
LimLoop(lim_entries, poly_entries, time_slot, max_diff) ==
    IF lim_entries = <<>> THEN <<>>
    ELSE PolyLoop(lim_entries[1], poly_entries, time_slot, max_diff)
         \o LimLoop(Tail(lim_entries), poly_entries, time_slot, max_diff)

\* poly_map[time_slot], <<>> when the slot is not a key
SlotEntries(time_map, time_slot) ==
    IF \E i \in 1..Len(time_map) : time_map[i].slot = time_slot
    THEN time_map[CHOOSE i \in 1..Len(time_map) :
                      time_map[i].slot = time_slot].entries
    ELSE <<>>

\* 'for time_slot in lim_map'
RECURSIVE SlotLoop(_, _, _)
SlotLoop(lim_map, poly_map, max_diff) ==
    IF lim_map = <<>> THEN <<>>
    ELSE LimLoop(lim_map[1].entries, SlotEntries(poly_map, lim_map[1].slot),
                 lim_map[1].slot, max_diff)
         \o SlotLoop(Tail(lim_map), poly_map, max_diff)

\* what a fetch task ends with: a list of market dicts or an exception
Fetched(markets) == [kind |-> "list", v |-> markets]

FetchError == [kind |-> "exception", v |-> <<>>]

\* the two 'isinstance(..., Exception)' tests after the gather
AnyFetchFailed(lim_markets, poly_markets) ==
    lim_markets.kind = "exception" \/ poly_markets.kind = "exception"

\* the body of find_matching_markets after the gather
MatchMarkets(lim_markets, poly_markets, max_diff) ==
    IF AnyFetchFailed(lim_markets, poly_markets) THEN <<>>
    ELSE SlotLoop(_build_time_strike_map(lim_markets.v, "title"),
                  _build_time_strike_map(poly_markets.v, "question"),
                  max_diff)

\* "$100 14:00 UTC"
Title_100_14 ==
    <<"$", "1", "0", "0", " ", "1", "4", ":", "0", "0", " ", "U", "T", "C">>

\* "BTC above $300 at 14:00 UTC"
Title_300_14 ==
    <<"B", "T", "C", " ", "a", "b", "o", "v", "e", " ", "$", "3", "0", "0",
      " ", "a", "t", " ", "1", "4", ":", "0", "0", " ", "U", "T", "C">>

\* "$1,100 15:00 UTC"
Title_1100_15 ==
    <<"$", "1", ",", "1", "0", "0", " ", "1", "5", ":", "0", "0", " ", "U",
      "T", "C">>

\* "BTC 14:00 UTC": no strike
Title_NoStrike ==
    <<"B", "T", "C", " ", "1", "4", ":", "0", "0", " ", "U", "T", "C">>

\* "$300.50 14:00UTC"
Title_300_50_14 ==
    <<"$", "3", "0", "0", ".", "5", "0", " ", "1", "4", ":", "0", "0", "U",
      "T", "C">>

\* "$1,300.00 15:00 UTC"
Title_1300_15 ==
    <<"$", "1", ",", "3", "0", "0", ".", "0", "0", " ", "1", "5", ":", "0",
      "0", " ", "U", "T", "C">>

\* "$100 at 2pm": no time slot
Title_NoTime ==
    <<"$", "1", "0", "0", " ", "a", "t", " ", "2", "p", "m">>

\* venue-A market dicts; the last one has no 'title' key
LimPool ==
    {[id |-> "a1", title |-> Title_100_14],
     [id |-> "a2", title |-> Title_300_14],
     [id |-> "a3", title |-> Title_1100_15],
     [id |-> "a4", title |-> Title_NoStrike],
     [id |-> "a5"]}

\* venue-B market dicts
PolyPool ==
    {[condition_id |-> "b1", question |-> Title_100_14],
     [condition_id |-> "b2", question |-> Title_300_50_14],
     [condition_id |-> "b3", question |-> Title_1300_15],
     [condition_id |-> "b4", question |-> Title_NoTime],
     [condition_id |-> "b5", question |-> Title_300_14]}

\* the lists of at most MaxMarkets entries over a pool
ListsOver(pool) == UNION {[1..n -> pool] : n \in 0..MaxMarkets}

\* BotConfig.MAX_STRIKE_DIFF is 200.0; 0 only pairs equal strikes
MaxStrikeDiffVals == {0, 20000}

NoFetch == [state |-> "none", ret |-> FetchError]

\* a call that creates venue B's task only once venue A has answered
FindMatchingMarkets_LimFirst ==
    /\ mon_pc = "idle"
    /\ mon_pc' = "gathering"
    /\ lim_fetch' = [NoFetch EXCEPT !.state = "running"]
    /\ poly_fetch' = NoFetch
    /\ UNCHANGED <<max_strike_diff, matches, engVars, calcVars, execVars, restVars>>

\* the call: both fetch tasks are created before the gather is awaited
FindMatchingMarkets ==
    /\ mon_pc = "idle"
    /\ mon_pc' = "gathering"
    /\ lim_fetch' = [NoFetch EXCEPT !.state = "running"]
    /\ poly_fetch' = [NoFetch EXCEPT !.state = "running"]
    /\ UNCHANGED <<max_strike_diff, matches, engVars, calcVars, execVars, restVars>>

LimFetchReturns ==
    /\ lim_fetch.state = "running"
    /\ \E ms \in ListsOver(LimPool) :
          lim_fetch' = [state |-> "done", ret |-> Fetched(ms)]
    /\ UNCHANGED <<max_strike_diff, mon_pc, poly_fetch, matches,
                   engVars, calcVars, execVars, restVars>>

LimFetchRaises ==
    /\ lim_fetch.state = "running"
    /\ lim_fetch' = [state |-> "done", ret |-> FetchError]
    /\ UNCHANGED <<max_strike_diff, mon_pc, poly_fetch, matches,
                   engVars, calcVars, execVars, restVars>>

PolyFetchReturns ==
    /\ poly_fetch.state = "running"
    /\ \E ms \in ListsOver(PolyPool) :
          poly_fetch' = [state |-> "done", ret |-> Fetched(ms)]
    /\ UNCHANGED <<max_strike_diff, mon_pc, lim_fetch, matches,
                   engVars, calcVars, execVars, restVars>>

PolyFetchRaises ==
    /\ poly_fetch.state = "running"
    /\ poly_fetch' = [state |-> "done", ret |-> FetchError]
    /\ UNCHANGED <<max_strike_diff, mon_pc, lim_fetch, matches,
                   engVars, calcVars, execVars, restVars>>

\* gather(return_exceptions=True) hands over both outcomes; the rest of
\* find_matching_markets runs to its return
MatchingReturns ==
    /\ mon_pc = "gathering"
    /\ lim_fetch.state = "done" /\ poly_fetch.state = "done"
    /\ matches' = MatchMarkets(lim_fetch.ret, poly_fetch.ret, max_strike_diff)
    /\ mon_pc' = "returned"
    /\ UNCHANGED <<max_strike_diff, lim_fetch, poly_fetch,
                   engVars, calcVars, execVars, restVars>>

-----------------------------------------------------------------------------
(* AsyncCache (src/utils/cache.py) *)

\* The cache lives on one asyncio event loop: a task runs until it awaits
\* something that is not ready, and only then may another task run.
\* 'running' is the task in the middle of such a stretch.  Acquiring a free
\* asyncio.Lock does not suspend, and no critical section of the class
\* awaits, so a task that reaches 'async with self._lock' finds it free.

CacheTasks == {1, 2}

CacheKeys == {"k1", "k2"}

\* the values stored and produced: Python's None and two other objects
CacheValues == {"None", "v1", "v2"}

\* the clock counts units of four seconds; the bot builds the cache with
\* ttl=CACHE_TTL, eight seconds
DefaultTtl == 2

\* the ttl argument of set: omitted (None) or a number of clock units
TtlArgs == {None, <<0>>, <<1>>}

\* @dataclass CacheEntry
CacheEntry(value, expires_at) == [value |-> value, expires_at |-> expires_at]

\* what a call handed back to its caller
Returned(v) == [kind |-> "value", v |-> v]

Counted(n) == [kind |-> "count", n |-> n]

\* a task that is not inside a call; ret is what its last call returned
IdleTask(ret) ==
    [op |-> "none", pc |-> "idle", key |-> "", value |-> "None",
     ttl |-> None, now |-> 0, ret |-> ret]

\* 'key in self._cache'
HasEntry(c, key) == c[key] # None

\* a test that still counts an entry as live at the instant of its expiry
IsLive_AtExpiry(entry, t_now) == t_now <= entry.expires_at

\* 'datetime.now() < entry.expires_at'
IsLive(entry, t_now) == t_now < entry.expires_at

\* 'ttl or self._ttl'
TtlOrDefault(ttl) == IF ttl = None \/ ttl[1] = 0 THEN DefaultTtl ELSE ttl[1]

\* entering 'async with self._lock' without taking the lock
Acquire_NoLock(t) ==
    /\ cache_lock = 0
    /\ cache_lock' = cache_lock

\* entering 'async with self._lock': the lock is free and the task takes it
Acquire(t) ==
    /\ cache_lock = 0
    /\ cache_lock' = t

\* leaving 'async with self._lock'
Release(t) ==
    /\ cache_lock = t
    /\ cache_lock' = 0

\* a task may start a call when no other task is in the middle of a stretch
CanCall(t) ==
    /\ running = 0
    /\ ctask[t].pc = "idle"
    /\ ncalls < MaxCacheCalls

\* the call returns ret to its caller, which ends the stretch
Return(t, ret) ==
    /\ ctask' = [ctask EXCEPT ![t] = IdleTask(ret)]
    /\ running' = 0

\* 'value = await fetch_fn(*args, **kwargs)': the producer is invoked and
\* the task waits for it
InvokeProducer(t) ==
    /\ ctask' = [ctask EXCEPT ![t].pc = "fetching"]
    /\ fetches' = fetches + 1
    /\ running' = 0

\* a caller awaits cache.get(key)
Get(t, key) ==
    /\ CanCall(t)
    /\ ctask' = [ctask EXCEPT ![t] = [@ EXCEPT !.op = "get", !.pc = "get",
                                               !.key = key,
                                               !.ret = Pending]]
    /\ running' = t
    /\ ncalls' = ncalls + 1
    /\ UNCHANGED <<cache, cache_lock, clock, fetches, nonCacheVars>>

\* a caller awaits cache.get_or_fetch(key, fetch_fn); its first statement is
\* 'cached = await self.get(key)'
GetOrFetch(t, key) ==
    /\ CanCall(t)
    /\ ctask' = [ctask EXCEPT ![t] = [@ EXCEPT !.op = "get_or_fetch",
                                               !.pc = "get", !.key = key,
                                               !.ret = Pending]]
    /\ running' = t
    /\ ncalls' = ncalls + 1
    /\ UNCHANGED <<cache, cache_lock, clock, fetches, nonCacheVars>>

\* what get_or_fetch does with the value get returned: 'if cached is not
\* None: return cached', else the producer is invoked
AfterGet(t, cached) ==
    IF ctask[t].op = "get"
    THEN Return(t, Returned(cached)) /\ UNCHANGED fetches
    ELSE IF cached # "None"
         THEN Return(t, Returned(cached)) /\ UNCHANGED fetches
         ELSE InvokeProducer(t)

\* an entry into the eviction that lets other tasks run before the lock
\* is taken
EnterEviction_Yields(t) ==
    /\ ctask' = [ctask EXCEPT ![t].pc = "get_locked"]
    /\ running' = 0
    /\ UNCHANGED <<cache_lock, fetches>>

\* line 30 of get: the free lock is taken at once and the task runs on
EnterEviction(t) ==
    /\ Acquire(t)
    /\ ctask' = [ctask EXCEPT ![t].pc = "get_locked"]
    /\ UNCHANGED <<running, fetches>>

\* lines 25-30 of get: a live entry is returned, an expired one sends the
\* task into the locked eviction, a missing one gives None
GetCheck(t) ==
    /\ running = t
    /\ ctask[t].pc = "get"
    /\ LET key == ctask[t].key
       IN  IF HasEntry(cache, key)
           THEN IF IsLive(cache[key][1], clock)
                THEN /\ AfterGet(t, cache[key][1].value)
                     /\ UNCHANGED cache_lock
                ELSE EnterEviction(t)
           ELSE /\ AfterGet(t, "None")
                /\ UNCHANGED cache_lock
    /\ UNCHANGED <<cache, clock, ncalls, nonCacheVars>>

\* lines 31-32 of get: 'self._cache.pop(key, None)', then 'return None'
GetEvict(t) ==
    /\ running = t
    /\ ctask[t].pc = "get_locked"
    /\ cache' = [cache EXCEPT ![ctask[t].key] = None]
    /\ Release(t)
    /\ AfterGet(t, "None")
    /\ UNCHANGED <<clock, ncalls, nonCacheVars>>

\* the producer returns value: get_or_fetch goes on to 'await
\* self.set(key, value)', which enters its critical section
FetchReturns(t, value) ==
    /\ running = 0
    /\ ctask[t].pc = "fetching"
    /\ Acquire(t)
    /\ ctask' = [ctask EXCEPT ![t] = [@ EXCEPT !.pc = "set_locked",
                                               !.value = value,
                                               !.ttl = None]]
    /\ running' = t
    /\ UNCHANGED <<cache, clock, ncalls, fetches, nonCacheVars>>

\* the producer raises: the exception leaves get_or_fetch
FetchRaises(t) ==
    /\ running = 0
    /\ ctask[t].pc = "fetching"
    /\ Return(t, Raised("FetchError"))
    /\ UNCHANGED <<cache, cache_lock, clock, ncalls, fetches, nonCacheVars>>

\* a caller awaits cache.set(key, value, ttl) and enters its critical
\* section; ttl = None is the omitted argument
Set(t, key, value, ttl) ==
    /\ CanCall(t)
    /\ Acquire(t)
    /\ ctask' = [ctask EXCEPT ![t] = [@ EXCEPT !.op = "set",
                                               !.pc = "set_locked",
                                               !.key = key, !.value = value,
                                               !.ttl = ttl, !.ret = Pending]]
    /\ running' = t
    /\ ncalls' = ncalls + 1
    /\ UNCHANGED <<cache, clock, fetches, nonCacheVars>>

\* a set that leaves an entry that is already there alone
Store_KeepFirst(c, key, value, ttl, t_now) ==
    IF HasEntry(c, key) THEN c
    ELSE [c EXCEPT ![key] = <<CacheEntry(value, t_now + TtlOrDefault(ttl))>>]

\* 'self._cache[key] = CacheEntry(value=value, expires_at=datetime.now() +
\* timedelta(seconds=ttl or self._ttl))'
Store(c, key, value, ttl, t_now) ==
    [c EXCEPT ![key] = <<CacheEntry(value, t_now + TtlOrDefault(ttl))>>]

\* lines 37-40 of set; set returns None, get_or_fetch returns the value
SetWrite(t) ==
    /\ running = t
    /\ ctask[t].pc = "set_locked"
    /\ cache' = Store(cache, ctask[t].key, ctask[t].value, ctask[t].ttl, clock)
    /\ Release(t)
    /\ Return(t, Returned(IF ctask[t].op = "set" THEN "None"
                          ELSE ctask[t].value))
    /\ UNCHANGED <<clock, ncalls, fetches, nonCacheVars>>

\* a caller awaits cache.invalidate(key) and enters its critical section
Invalidate(t, key) ==
    /\ CanCall(t)
    /\ Acquire(t)
    /\ ctask' = [ctask EXCEPT ![t] = [@ EXCEPT !.op = "invalidate",
                                               !.pc = "invalidate_locked",
                                               !.key = key, !.ret = Pending]]
    /\ running' = t
    /\ ncalls' = ncalls + 1
    /\ UNCHANGED <<cache, clock, fetches, nonCacheVars>>

\* line 61: 'self._cache.pop(key, None)'
InvalidatePop(t) ==
    /\ running = t
    /\ ctask[t].pc = "invalidate_locked"
    /\ cache' = [cache EXCEPT ![ctask[t].key] = None]
    /\ Release(t)
    /\ Return(t, Returned("None"))
    /\ UNCHANGED <<clock, ncalls, fetches, nonCacheVars>>

\* a caller awaits cache.clear() and enters its critical section
Clear(t) ==
    /\ CanCall(t)
    /\ Acquire(t)
    /\ ctask' = [ctask EXCEPT ![t] = [@ EXCEPT !.op = "clear",
                                               !.pc = "clear_locked",
                                               !.ret = Pending]]
    /\ running' = t
    /\ ncalls' = ncalls + 1
    /\ UNCHANGED <<cache, clock, fetches, nonCacheVars>>

\* line 66: 'self._cache.clear()'
ClearAll(t) ==
    /\ running = t
    /\ ctask[t].pc = "clear_locked"
    /\ cache' = [k \in CacheKeys |-> None]
    /\ Release(t)
    /\ Return(t, Returned("None"))
    /\ UNCHANGED <<clock, ncalls, fetches, nonCacheVars>>

\* a caller awaits cache.cleanup_expired(): 'now = datetime.now()' is read
\* before the critical section is entered
CleanupExpired(t) ==
    /\ CanCall(t)
    /\ Acquire(t)
    /\ ctask' = [ctask EXCEPT ![t] = [@ EXCEPT !.op = "cleanup_expired",
                                               !.pc = "cleanup_locked",
                                               !.now = clock,
                                               !.ret = Pending]]
    /\ running' = t
    /\ ncalls' = ncalls + 1
    /\ UNCHANGED <<cache, clock, fetches, nonCacheVars>>

\* an expiry test that spares the entries expiring at this very instant
IsExpired_Strict(entry, t_now) == t_now > entry.expires_at

\* 'now >= v.expires_at'
IsExpired(entry, t_now) == t_now >= entry.expires_at

\* 'expired = [k for k, v in self._cache.items() if now >= v.expires_at]'
ExpiredKeys(c, t_now) ==
    {k \in CacheKeys : HasEntry(c, k) /\ IsExpired(c[k][1], t_now)}

\* 'for k in expired: del self._cache[k]'
Swept(c, t_now) ==
    [k \in CacheKeys |-> IF k \in ExpiredKeys(c, t_now) THEN None ELSE c[k]]

\* lines 72-75: the expired keys are deleted and counted
CleanupSweep(t) ==
    /\ running = t
    /\ ctask[t].pc = "cleanup_locked"
    /\ cache' = Swept(cache, ctask[t].now)
    /\ Return(t, Counted(Cardinality(ExpiredKeys(cache, ctask[t].now))))
    /\ Release(t)
    /\ UNCHANGED <<clock, ncalls, fetches, nonCacheVars>>

\* time passes, also while a task is running
ClockTick ==
    /\ clock < MaxTime
    /\ clock' = clock + 1
    /\ UNCHANGED <<cache, cache_lock, running, ctask, ncalls, fetches,
                   nonCacheVars>>

-----------------------------------------------------------------------------
(* ArbitrageBot (src/main.py): run, scan_and_execute, process_match *)

\* The monitor, the venue clients and the executor are seen through what
\* their calls hand back: a number of matches, quotes or an exception, an
\* ExecutionResult or an exception.  The engine is the one modelled above.

\* what venue A's get_market_prices hands back: None (or an empty dict) or
\* a dict of the two asks; against venue B's dict the first gives an
\* opportunity on YES, the second one on NO, the third none, and the fourth
\* makes find_arbitrage raise (a total cost of zero)
LimQuotes ==
    {None,
     <<[yes_ask |-> <<400>>, no_ask |-> <<600>>]>>,
     <<[yes_ask |-> <<600>>, no_ask |-> <<400>>]>>,
     <<[yes_ask |-> <<500>>, no_ask |-> <<550>>]>>,
     <<[yes_ask |-> <<-550>>, no_ask |-> <<600>>]>>}

\* what venue B's get_market_prices hands back
PolyQuotes == {None, <<[yes_ask |-> <<500>>, no_ask |-> <<550>>]>>}

\* a process_match task awaiting the gather of its two quotes
NewPair ==
    [pc |-> "quotes", lim_prices |-> None, poly_prices |-> None,
     opportunity |-> Absent, bet_size |-> 0, ret |-> Pending]

\* a process_match task that returned ret
DonePair(ret) == [NewPair EXCEPT !.pc = "done", !.ret = ret]

\* the record of pair i of cycle n becomes rec
SetPair(n, i, rec) == cycles' = [cycles EXCEPT ![n].pairs[i] = rec]

\* pair i of cycle n is at position at of process_match
PairAt(n, i, at) ==
    /\ n \in 1..Len(cycles)
    /\ cycles[n].pc = "processing"
    /\ i \in 1..Len(cycles[n].pairs)
    /\ cycles[n].pairs[i].pc = at

\* "self.stats[name] += 1"
Bump(st, name) == [st EXCEPT ![name] = @ + 1]

\* the signal handler: 'self.running = False'
Signal ==
    /\ bot_running
    /\ bot_running' = FALSE
    /\ UNCHANGED <<run_pc, stats, cycles, cacheVars, nonDrvVars>>

\* a loop that starts the scan as a task of its own and goes on to sleep
StartScan_NoAwait ==
    /\ run_pc = "loop"
    /\ bot_running
    /\ Len(cycles) < MaxCycles
    /\ stats' = Bump(stats, "scans")
    /\ cycles' = Append(cycles, [pc |-> "matching", pairs |-> <<>>])
    /\ run_pc' = "sleeping"
    /\ UNCHANGED <<bot_running, cacheVars, nonDrvVars>>

\* 'while self.running: await self.scan_and_execute()' up to the await of
\* find_matching_markets
StartScan ==
    /\ run_pc = "loop"
    /\ bot_running
    /\ Len(cycles) < MaxCycles
    /\ stats' = Bump(stats, "scans")
    /\ cycles' = Append(cycles, [pc |-> "matching", pairs |-> <<>>])
    /\ run_pc' = "scanning"
    /\ UNCHANGED <<bot_running, cacheVars, nonDrvVars>>

\* 'while self.running' finds the flag cleared: run() leaves its loop
Stop ==
    /\ run_pc = "loop"
    /\ ~bot_running
    /\ run_pc' = "stopped"
    /\ UNCHANGED <<bot_running, stats, cycles, cacheVars, nonDrvVars>>

\* 'await asyncio.sleep(POLL_INTERVAL)' is over
Wake ==
    /\ run_pc = "sleeping"
    /\ run_pc' = "loop"
    /\ UNCHANGED <<bot_running, stats, cycles, cacheVars, nonDrvVars>>

\* the end of scan_and_execute: the finally block sweeps the cache, the
\* call returns to run(), which sleeps if it is still to run; the tasks and
\* their results were locals of the call
ScanEnds(n) ==
    /\ run_pc = "scanning"
    /\ cycles' = [cycles EXCEPT ![n] = [pc |-> "done", pairs |-> <<>>]]
    /\ cache' = Swept(cache, clock)
    /\ run_pc' = IF bot_running THEN "sleeping" ELSE "loop"
    /\ UNCHANGED <<bot_running, cache_lock, clock, running, ctask, ncalls,
                   fetches, nonDrvVars>>

\* find_matching_markets returns k matches: none ends the scan, otherwise
\* one process_match task per match is handed to gather
MatchesReturn(n, k) ==
    /\ n \in 1..Len(cycles)
    /\ cycles[n].pc = "matching"
    /\ IF k = 0
       THEN ScanEnds(n)
       ELSE /\ cycles' = [cycles EXCEPT ![n] =
                             [pc |-> "processing",
                              pairs |-> [i \in 1..k |-> NewPair]]]
            /\ UNCHANGED <<bot_running, run_pc, cacheVars, nonDrvVars>>
    /\ UNCHANGED stats

\* a fetch of quotes raised and the exception ends the whole scan
QuotesRaise_EndsScan(n, i) ==
    /\ PairAt(n, i, "quotes")
    /\ ScanEnds(n)
    /\ UNCHANGED stats

\* a get_market_prices call raised: 'except Exception' returns False
QuotesRaise(n, i) ==
    /\ PairAt(n, i, "quotes")
    /\ SetPair(n, i, DonePair(FALSE))
    /\ UNCHANGED <<bot_running, run_pc, stats, cacheVars, nonDrvVars>>

\* a call that hands the engine the two quotes in the wrong order
Evaluate_Swapped(lim_q, poly_q) ==
    find_arbitrage(min_spread_pct, poly_q[1], lim_q[1])

\* 'self.arbitrage_engine.find_arbitrage(lim_prices, poly_prices)'
Evaluate(lim_q, poly_q) ==
    find_arbitrage(min_spread_pct, lim_q[1], poly_q[1])

\* both quotes are in; lines 108-158 run up to the await of
\* execute_arbitrage, or to a 'return False'
QuotesArrive(n, i, lim_q, poly_q) ==
    /\ PairAt(n, i, "quotes")
    /\ IF lim_q = None \/ poly_q = None
       THEN SetPair(n, i, DonePair(FALSE)) /\ UNCHANGED stats
       ELSE LET opp == Evaluate(lim_q, poly_q)
                bet == calculate_bet_size(max_bet, slippage, opp)
            IN  IF opp.kind # "opp"
                THEN SetPair(n, i, DonePair(FALSE)) /\ UNCHANGED stats
                ELSE /\ stats' = Bump(stats, "opportunities_found")
                     /\ IF estimate_profit(opp.total_cost, bet).kind = "raised"
                        THEN SetPair(n, i, DonePair(FALSE))
                        ELSE SetPair(n, i,
                                 [pc |-> "executing", lim_prices |-> lim_q,
                                  poly_prices |-> poly_q, opportunity |-> opp,
                                  bet_size |-> bet, ret |-> Pending])
    /\ UNCHANGED <<bot_running, run_pc, cacheVars, nonDrvVars>>

\* a process_match that counts every returned execution as a success
ExecutionReturns_AllSuccessful(n, i, success) ==
    /\ PairAt(n, i, "executing")
    /\ stats' = Bump(Bump(stats, "trades_executed"), "trades_successful")
    /\ SetPair(n, i, DonePair(success))
    /\ UNCHANGED <<bot_running, run_pc, cacheVars, nonDrvVars>>

\* execute_arbitrage returned an ExecutionResult with this success flag
ExecutionReturns(n, i, success) ==
    /\ PairAt(n, i, "executing")
    /\ stats' = Bump(Bump(stats, "trades_executed"),
                     IF success THEN "trades_successful" ELSE "trades_failed")
    /\ SetPair(n, i, DonePair(success))
    /\ UNCHANGED <<bot_running, run_pc, cacheVars, nonDrvVars>>

\* execute_arbitrage raised: 'except Exception' returns False
ExecutionRaises(n, i) ==
    /\ PairAt(n, i, "executing")
    /\ SetPair(n, i, DonePair(FALSE))
    /\ UNCHANGED <<bot_running, run_pc, stats, cacheVars, nonDrvVars>>

\* every process_match task has returned: the gather hands over the results
GatherReturns(n) ==
    /\ n \in 1..Len(cycles)
    /\ cycles[n].pc = "processing"
    /\ \A i \in 1..Len(cycles[n].pairs) : cycles[n].pairs[i].pc = "done"
    /\ ScanEnds(n)
    /\ UNCHANGED stats

-----------------------------------------------------------------------------
(* Specifications *)

NoCall == [kind |-> "nocall"]

EngineIdle ==
    /\ min_spread_pct = MinSpread3
    /\ lim_prices = [yes_ask |-> None, no_ask |-> None]
    /\ poly_prices = [yes_ask |-> None, no_ask |-> None]
    /\ best = Pending

CalcIdle ==
    /\ spread_p1 = None
    /\ spread_p2 = None
    /\ spread_ret = Pending
    /\ max_bet = 1000
    /\ slippage = 50
    /\ bets = <<>>
    /\ est_cost = 850
    /\ est_bet = 498
    /\ profit = Pending

MonIdle ==
    /\ max_strike_diff = 20000
    /\ mon_pc = "idle"
    /\ lim_fetch = NoFetch
    /\ poly_fetch = NoFetch
    /\ matches = <<>>

CacheIdle ==
    /\ cache = [k \in CacheKeys |-> None]
    /\ cache_lock = 0
    /\ clock = 0
    /\ running = 0
    /\ ctask = [t \in CacheTasks |-> IdleTask(Pending)]
    /\ ncalls = 0
    /\ fetches = 0

\* ArbitrageBot() right after construction
DriverIdle ==
    /\ bot_running = TRUE
    /\ run_pc = "loop"
    /\ stats = [scans |-> 0, opportunities_found |-> 0, trades_executed |-> 0,
                trades_successful |-> 0, trades_failed |-> 0]
    /\ cycles = <<>>

\* neither the cache nor the driver is used
RestIdle == CacheIdle /\ DriverIdle

ExecIdle ==
    /\ pc = "idle"
    /\ result = <<>>
    /\ raised = <<>>
    /\ timed_out = FALSE
    /\ now = 0
    /\ lim_task = NoTask
    /\ poly_task = NoTask
    /\ lim_log = <<>>
    /\ poly_log = <<>>
    /\ ordA = "none"
    /\ ordB = "none"
    /\ lim_bound = NoCall
    /\ poly_order_args = NoCall
    /\ poly_thread = "idle"

\* no call of execute_arbitrage is under way
ExecInputsIdle ==
    /\ opportunity = Absent
    /\ bet_size = 0
    /\ match = [limitless |-> [title |-> "t"],
                polymarket |-> [condition_id |-> "c-1"]]

ExecInit ==
    /\ RestIdle
    /\ opportunity \in OppInputs
    /\ bet_size \in BetSizeVals
    /\ match \in Matches
    /\ ExecIdle
    /\ EngineIdle
    /\ CalcIdle
    /\ MonIdle

ExecNext ==
    \/ ExecuteArbitrage
    \/ LimStart \/ LimReturn \/ LimRaise
    \/ PolyStart \/ PolyReturn \/ PolyRaise
    \/ VenueAAccepts \/ VenueBAccepts
    \/ Tick \/ GatherDone \/ Timeout

\* the executor with any clients that honour its place_order calls
ExecSpec == ExecInit /\ [][ExecNext]_vars

WiredNext ==
    \/ ExecuteArbitrage
    \/ LimAttempt
    \/ PolyAttempt \/ PolyCreateOrderReturns \/ PolyThreadExit
    \/ Tick \/ GatherDone \/ Timeout

\* the executor with LimitlessClient and PolymarketClient behind it
WiredSpec == ExecInit /\ [][WiredNext]_vars

EngineInit ==
    /\ RestIdle
    /\ min_spread_pct \in MinSpreadVals
    /\ lim_prices \in Quotes
    /\ poly_prices \in Quotes
    /\ best = Pending
    /\ ExecInputsIdle
    /\ ExecIdle
    /\ CalcIdle
    /\ MonIdle

FindArbitrage ==
    /\ best = Pending
    /\ best' = find_arbitrage(min_spread_pct, lim_prices, poly_prices)
    /\ UNCHANGED <<min_spread_pct, lim_prices, poly_prices, execVars, restVars,
                   calcVars, monVars>>

EngineNext == FindArbitrage

\* the engine applied to every quote pair of the bounded price grid
EngineSpec == EngineInit /\ [][EngineNext]_vars

SpreadInit ==
    /\ RestIdle
    /\ spread_p1 \in PriceVals
    /\ spread_p2 \in PriceVals
    /\ spread_ret = Pending
    /\ max_bet = 1000 /\ slippage = 50 /\ bets = <<>>
    /\ est_cost = 850 /\ est_bet = 498 /\ profit = Pending
    /\ EngineIdle /\ ExecInputsIdle /\ ExecIdle /\ MonIdle

CalculateSpread ==
    /\ spread_ret = Pending
    /\ spread_ret' = calculate_spread(spread_p1, spread_p2)
    /\ UNCHANGED <<spread_p1, spread_p2, max_bet, slippage, bets,
                   est_cost, est_bet, profit, engVars, execVars, restVars, monVars>>

SpreadNext == CalculateSpread

\* calculate_spread applied to every pair of the price grid
SpreadSpec == SpreadInit /\ [][SpreadNext]_vars

\* maximum total stakes in cents; BotConfig.MAX_BET_AMOUNT is 10.0
MaxBetVals == {-1000, 0, 1, 997, 999, 1000, 2500}

\* slippage tolerances in hundredths of a percent, 0 % to 150 %;
\* BotConfig.SLIPPAGE_TOLERANCE is 0.5
SlippageVals == {0, 30, 50, 100, 250, 10000, 15000}

BetInit ==
    /\ RestIdle
    /\ max_bet \in MaxBetVals
    /\ slippage \in SlippageVals
    /\ bets = <<>>
    /\ spread_p1 = None /\ spread_p2 = None /\ spread_ret = Pending
    /\ est_cost = 850 /\ est_bet = 498 /\ profit = Pending
    /\ EngineIdle /\ ExecInputsIdle /\ ExecIdle /\ MonIdle

CalculateBetSize ==
    /\ Len(bets) < MaxCalls
    /\ \E opp \in OppInputs :
          bets' = Append(bets, calculate_bet_size(max_bet, slippage, opp))
    /\ UNCHANGED <<spread_p1, spread_p2, spread_ret, max_bet, slippage,
                   est_cost, est_bet, profit, engVars, execVars, restVars, monVars>>

BetNext == CalculateBetSize

\* calculate_bet_size called up to MaxCalls times on one engine
BetSpec == BetInit /\ [][BetNext]_vars

\* the total costs of the opportunities _evaluate_scenario builds from the
\* price grid
OppCosts ==
    {o.total_cost :
        o \in {x \in {_evaluate_scenario(ms, a, b, "t", "YES", "NO") :
                          ms \in MinSpreadVals, a \in PriceVals,
                          b \in PriceVals} : x.kind = "opp"}}

\* bet sizes in cents
EstBetVals == {0, 1, 3, 498, 500}

ProfitInit ==
    /\ RestIdle
    /\ est_cost \in OppCosts
    /\ est_bet \in EstBetVals
    /\ profit = Pending
    /\ spread_p1 = None /\ spread_p2 = None /\ spread_ret = Pending
    /\ max_bet = 1000 /\ slippage = 50 /\ bets = <<>>
    /\ EngineIdle /\ ExecInputsIdle /\ ExecIdle /\ MonIdle

EstimateProfit ==
    /\ profit = Pending
    /\ profit' = estimate_profit(est_cost, est_bet)
    /\ UNCHANGED <<spread_p1, spread_p2, spread_ret, max_bet, slippage, bets,
                   est_cost, est_bet, engVars, execVars, restVars, monVars>>

ProfitNext == EstimateProfit

\* estimate_profit applied to the engine's opportunities and a few bet sizes
ProfitSpec == ProfitInit /\ [][ProfitNext]_vars

MonitorInit ==
    /\ RestIdle
    /\ max_strike_diff \in MaxStrikeDiffVals
    /\ mon_pc = "idle"
    /\ lim_fetch = NoFetch
    /\ poly_fetch = NoFetch
    /\ matches = <<>>
    /\ EngineIdle /\ ExecInputsIdle /\ ExecIdle /\ CalcIdle

MonitorNext ==
    \/ FindMatchingMarkets
    \/ LimFetchReturns \/ LimFetchRaises
    \/ PolyFetchReturns \/ PolyFetchRaises
    \/ MatchingReturns

\* find_matching_markets with clients whose fetch returns a list or raises
MonitorSpec == MonitorInit /\ [][MonitorNext]_vars

\* AsyncCache() right after construction
CacheInit ==
    /\ CacheIdle /\ DriverIdle
    /\ EngineIdle /\ ExecInputsIdle /\ ExecIdle /\ CalcIdle /\ MonIdle

CacheNext ==
    \/ \E t \in CacheTasks :
             \/ Clear(t)
             \/ ClearAll(t)
             \/ \E key \in CacheKeys : Get(t, key)
             \/ \E key \in CacheKeys : GetOrFetch(t, key)
             \/ GetCheck(t)
             \/ GetEvict(t)
             \/ \E value \in CacheValues : FetchReturns(t, value)
             \/ FetchRaises(t)
             \/ \E key \in CacheKeys, value \in CacheValues, ttl \in TtlArgs :
                    Set(t, key, value, ttl)
             \/ SetWrite(t)
             \/ \E key \in CacheKeys : Invalidate(t, key)
             \/ InvalidatePop(t)
             \/ CleanupExpired(t)
             \/ CleanupSweep(t)
    \/ ClockTick

\* two tasks of one event loop calling one AsyncCache
CacheSpec == CacheInit /\ [][CacheNext]_vars

\* ArbitrageBot() with the configured engine, before run() starts its loop
DriverInit ==
    /\ DriverIdle /\ CacheIdle
    /\ EngineIdle /\ ExecInputsIdle /\ ExecIdle /\ CalcIdle /\ MonIdle

DriverNext ==
    \/ StartScan
    \/ Stop
    \/ Wake
    \/ Signal
    \/ \E n \in 1..MaxCycles :
          \/ \E k \in 0..MaxPairs : MatchesReturn(n, k)
          \/ GatherReturns(n)
          \/ \E i \in 1..MaxPairs :
                \/ QuotesRaise(n, i)
                \/ \E lim_q \in LimQuotes, poly_q \in PolyQuotes :
                      QuotesArrive(n, i, lim_q, poly_q)
                \/ \E success \in BOOLEAN : ExecutionReturns(n, i, success)
                \/ ExecutionRaises(n, i)

\* run() with collaborators that answer in every way their interface allows
DriverSpec == DriverInit /\ [][DriverNext]_vars

-----------------------------------------------------------------------------
(* Properties of the order executor *)

\* the 'tokens' list of the matched venue-B market ([] when the key is absent)
MatchTokens ==
    IF "tokens" \in DOMAIN match.polymarket THEN match.polymarket.tokens
    ELSE <<>>

\* execute_arbitrage returned from the normal path (no timeout, both legs ran)
ReturnedNormally ==
    pc = "returned" /\ ~timed_out /\ Done(lim_task) /\ Done(poly_task)

\* C1: every returned ExecutionResult has success = both_filled; and when
\* exactly one leg handed back a confirmation and the wait did not time out,
\* the result has success = false, both_filled = false and carries what each
\* leg returned, the lone confirmation included.
C1_SuccessIffBothFilled ==
    result # <<>> =>
        /\ result[1].success = both_filled(result[1])
        /\ (ReturnedNormally /\ Truthy(lim_task.ret) # Truthy(poly_task.ret))
              => /\ result[1].success = FALSE
                 /\ ~both_filled(result[1])
                 /\ result[1].limitless_order = lim_task.ret
                 /\ result[1].polymarket_order = poly_task.ret

\* venue A confirmed, venue B answered with nothing, and the call returned
C1_Witness ==
    /\ ReturnedNormally
    /\ lim_task.ret = ConfA
    /\ poly_task.ret = "EmptyDict"

\* C2: an exception of place_order stays inside its leg, where it becomes
\* the return value None; the other leg is still run to its end and its
\* return value is in the result: leg A confirmed and leg B threw gives
\* (success = false, leg-A confirmation, leg B absent, both_filled = false),
\* and the same with the legs swapped.
C2_LegFailureIsLocal ==
    /\ lim_task.threw => lim_task.state = "done" /\ lim_task.ret = "None"
    /\ poly_task.threw => poly_task.state = "done" /\ poly_task.ret = "None"
    /\ (pc = "returned" /\ ~timed_out /\ (lim_task.threw \/ poly_task.threw))
          => /\ Done(lim_task) /\ Done(poly_task)
             /\ result[1].limitless_order = lim_task.ret
             /\ result[1].polymarket_order = poly_task.ret
             /\ result[1].success = FALSE
             /\ ~both_filled(result[1])
    /\ (pc = "returned" /\ ~timed_out /\ poly_task.threw
            /\ lim_task.ret = ConfA)
          => result[1] = ExecutionResult(FALSE, ConfA, "None", "None",
                                         <<bet_size>>)
    /\ (pc = "returned" /\ ~timed_out /\ lim_task.threw
            /\ poly_task.ret = ConfB)
          => result[1] = ExecutionResult(FALSE, "None", ConfB, "None",
                                         <<bet_size>>)

\* leg B's place_order threw, leg A confirmed afterwards, the call returned
C2_Witness ==
    /\ pc = "returned"
    /\ ~timed_out
    /\ poly_task.threw
    /\ lim_task.ret = ConfA

\* C3: when the timeout elapses before both legs completed, the call
\* returns (success = false, both legs absent, error "Execution timeout"),
\* also when a leg had already returned a confirmation, and nothing a venue
\* does afterwards changes it; a call that returns with a leg unfinished
\* has taken this branch.
C3_TimeoutIsFullFailure ==
    /\ timed_out =>
          /\ pc = "returned"
          /\ result = <<ExecutionResult(FALSE, "None", "None",
                                        "Execution timeout", <<bet_size>>)>>
    /\ (pc = "returned" /\ lim_task.state # "none"
            /\ ~(Done(lim_task) /\ Done(poly_task)))
          => timed_out

\* the wait timed out after leg A had confirmed, and venue B took leg B's
\* order although nobody waited for it any more
C3_Witness ==
    /\ timed_out
    /\ Done(lim_task)
    /\ lim_task.ret = ConfA
    /\ poly_task.state = "cancelled"
    /\ ordB = "accepted"

\* C4: with fewer than two entries in the venue-B token list (or no list)
\* execute_arbitrage returns a failure that carries an error text, and no
\* task is created and no place_order call is made on either client.
C4_MalformedTokensPlaceNoOrder ==
    Len(MatchTokens) < 2 =>
        /\ pc \in {"idle", "returned"}
        /\ lim_task = NoTask /\ poly_task = NoTask
        /\ lim_log = <<>> /\ poly_log = <<>>
        /\ ordA = "none" /\ ordB = "none"
        /\ pc = "returned" =>
              /\ result[1].success = FALSE
              /\ result[1].error # "None"
              /\ result[1].limitless_order = "None"
              /\ result[1].polymarket_order = "None"

\* the call returned for a market with a single token
C4_Witness ==
    /\ Len(MatchTokens) = 1
    /\ pc = "returned"

\* C5 (as claimed): in an attempt that passed token resolution, venue A's
\* place_order is entered as a buy of the opportunity's venue-A outcome for
\* bet_size at the leg-A price, venue B's order is a BUY of the resolved
\* token for bet_size at the leg-B price, and both tasks exist before the
\* executor awaits either.
C5_OrdersAsSpecified ==
    /\ lim_bound # NoCall =>
          /\ lim_bound.kind = "bound"
          /\ lim_bound.market_id = match.limitless.id
          /\ Upper(lim_bound.outcome) = opportunity.limitless_side
          /\ Upper(lim_bound.side) = "BUY"
          /\ lim_bound.amount = bet_size
          /\ lim_bound.price = opportunity.limitless_price
    /\ poly_order_args # NoCall =>
          /\ poly_order_args.side = "BUY"
          /\ poly_order_args.size = Float(bet_size)
          /\ poly_order_args.price = Float(opportunity.polymarket_price)
          /\ <<poly_order_args.token_id>> =
                _get_polymarket_token_id(match.polymarket,
                                         opportunity.polymarket_side).v
    /\ pc = "awaiting" => lim_task.state # "none" /\ poly_task.state # "none"

\* C6 (as claimed): within one attempt each venue's order submission is run
\* at most once, a submission that failed is not run again, and the only
\* client method the executor calls is place_order (no cancel, no unwind).
C6_NoResubmission ==
    /\ lim_task.attempts <= 1
    /\ poly_task.attempts <= 1
    /\ Len(lim_log) <= 1
    /\ Len(poly_log) <= 1
    /\ \A i \in 1..Len(lim_log) : lim_log[i].method = "place_order"
    /\ \A i \in 1..Len(poly_log) : poly_log[i].method = "place_order"

\* states of a leg that is inside the client's place_order
InVenueCall == {"calling", "signing"}

\* C7 (as claimed): the timeout ends the wait and not the venue call: when
\* the timeout failure was returned and a leg was cut off inside its venue
\* call, an order of that attempt is in flight to a venue or accepted by it.
C7_TimeoutLeavesOrderInFlight ==
    (timed_out /\ (lim_task.interrupted \in InVenueCall
                     \/ poly_task.interrupted \in InVenueCall))
        => (ordA \in {"inflight", "accepted"} \/ ordB \in {"inflight", "accepted"})

\* C8 (as claimed): execute_arbitrage never raises to its caller.
C8_NeverRaises == pc # "raised"

-----------------------------------------------------------------------------
(* Properties of the arbitrage engine *)

\* both ask prices are there and their sum is at least 1
SumAtLeastOne(a, b) == a # None /\ b # None /\ a[1] + b[1] >= One

\* C9: when both scenarios cost at least 1.0 (venue-A yes ask + venue-B no
\* ask, and venue-A no ask + venue-B yes ask), find_arbitrage returns
\* absent; a cost of exactly 1.00 is no opportunity.
C9_NoOpportunityAtOrAboveOne ==
    (/\ best # Pending
     /\ SumAtLeastOne(lim_prices.yes_ask, poly_prices.no_ask)
     /\ SumAtLeastOne(lim_prices.no_ask, poly_prices.yes_ask))
        => best = Absent

\* find_arbitrage ran on quotes whose two scenarios both cost exactly 1.00,
\* with the most permissive spread threshold
C9_Witness ==
    /\ best = Absent
    /\ min_spread_pct = DecZero
    /\ lim_prices = [yes_ask |-> <<400>>, no_ask |-> <<600>>]
    /\ poly_prices = [yes_ask |-> <<400>>, no_ask |-> <<600>>]

\* the legs of the scenario an opportunity is tagged with
ScenarioLegs(o) ==
    IF o.type = "YES_LIMITLESS_NO_POLYMARKET"
    THEN <<lim_prices.yes_ask, poly_prices.no_ask>>
    ELSE <<lim_prices.no_ask, poly_prices.yes_ask>>

\* C10: every Opportunity find_arbitrage returns has total_cost equal to
\* the sum of its two leg prices (the asks of its scenario), total_cost
\* below 1.0 and profit_pct = (1 - total_cost) / total_cost * 100 in the
\* engine's decimal arithmetic; venue-A yes ask 0.40 with venue-B no ask
\* 0.45 (no other asks quoted) and a 3 % minimum spread give that scenario
\* with total_cost 0.85 and a profit of 17.647... %.
C10_OpportunityArithmetic ==
    /\ best.kind = "opp" =>
          /\ <<best.limitless_price>> = ScenarioLegs(best)[1]
          /\ <<best.polymarket_price>> = ScenarioLegs(best)[2]
          /\ best.total_cost = best.limitless_price + best.polymarket_price
          /\ best.total_cost < One
          /\ best.profit_pct =
                DecMul100(DecDiv(One - best.total_cost, best.total_cost))
    /\ (/\ best # Pending
        /\ min_spread_pct = DecDiv(30, 10)
        /\ lim_prices = [yes_ask |-> <<400>>, no_ask |-> None]
        /\ poly_prices = [yes_ask |-> None, no_ask |-> <<450>>])
          => /\ best.kind = "opp"
             /\ best.type = "YES_LIMITLESS_NO_POLYMARKET"
             /\ best.total_cost = 850
             /\ best.profit_pct.adj = 1
             /\ SubSeq(best.profit_pct.digits, 1, 5) = <<1, 7, 6, 4, 7>>

\* find_arbitrage returned the opportunity of the 0.40 / 0.45 quotes
C10_Witness ==
    /\ best.kind = "opp"
    /\ min_spread_pct = DecDiv(30, 10)
    /\ lim_prices = [yes_ask |-> <<400>>, no_ask |-> None]
    /\ poly_prices = [yes_ask |-> None, no_ask |-> <<450>>]

\* the two scenarios of the quotes in hand, as _evaluate_scenario rates them
Scenario1 ==
    _evaluate_scenario(min_spread_pct, lim_prices.yes_ask, poly_prices.no_ask,
                       "YES_LIMITLESS_NO_POLYMARKET", "YES", "NO")

Scenario2 ==
    _evaluate_scenario(min_spread_pct, lim_prices.no_ask, poly_prices.yes_ask,
                       "NO_LIMITLESS_YES_POLYMARKET", "NO", "YES")

\* an ask price that is present and strictly positive
PresentPositive(p) == p # None /\ p[1] > 0

\* C11 (as claimed): find_arbitrage never raises, and every opportunity it
\* returns has both leg prices present and strictly positive, whatever the
\* quotes and the minimum spread (0 included).
C11_PositiveLegsOnly ==
    best # Pending =>
        /\ best.kind # "raised"
        /\ best.kind = "opp" =>
              /\ PresentPositive(ScenarioLegs(best)[1])
              /\ PresentPositive(ScenarioLegs(best)[2])
              /\ best.limitless_price > 0
              /\ best.polymarket_price > 0

\* |x - y| / mean(x, y) * 100 for positive x and y, in thousandths
SpreadFormula(x, y) == DecMul100(DecDiv(2 * Abs(x - y), x + y))

\* the first scenario's legs are positive, cost less than 1, and the spread
\* between leg A and 1 - leg B is exactly the minimum spread
Scenario1AtThreshold ==
    /\ PresentPositive(lim_prices.yes_ask)
    /\ PresentPositive(poly_prices.no_ask)
    /\ lim_prices.yes_ask[1] + poly_prices.no_ask[1] < One
    /\ SpreadFormula(lim_prices.yes_ask[1], One - poly_prices.no_ask[1])
          = min_spread_pct

\* C12: every opportunity find_arbitrage returns has spread_pct >= the
\* minimum spread, where spread_pct is the spread between leg A and
\* 1 - leg B, |x - y| / mean(x, y) * 100 for positive x and y; a scenario
\* whose spread equals the threshold yields an opportunity; and prices with
\* a zero mean give spread 0, not a division error.
C12_SpreadMeetsThreshold ==
    /\ best.kind = "opp" =>
          /\ ~DecLess(best.spread_pct, min_spread_pct)
          /\ best.spread_pct =
                calculate_spread(<<best.limitless_price>>,
                                 <<One - best.polymarket_price>>)
          /\ (best.limitless_price > 0 /\ best.polymarket_price < One)
                => best.spread_pct =
                      SpreadFormula(best.limitless_price,
                                    One - best.polymarket_price)
    /\ (best # Pending /\ Scenario1AtThreshold) =>
          /\ Scenario1.kind = "opp"
          /\ Scenario1.spread_pct = min_spread_pct
          /\ best.kind \in {"opp", "raised"}
    /\ (best # Pending /\ lim_prices.yes_ask # None) =>
          calculate_spread(lim_prices.yes_ask, <<-lim_prices.yes_ask[1]>>)
             = DecZero

\* find_arbitrage returned the first scenario, whose spread (0.40 against an
\* implied 0.60) is exactly the 40 % threshold
C12_Witness ==
    /\ best.kind = "opp"
    /\ best.type = "YES_LIMITLESS_NO_POLYMARKET"
    /\ min_spread_pct = DecDiv(40, 1)
    /\ best.spread_pct = min_spread_pct
    /\ lim_prices.yes_ask = <<400>>
    /\ poly_prices.no_ask = <<400>>

\* a scenario qualifies: asks present and positive, cost below 1, and the
\* spread between leg A and 1 - leg B at least the minimum spread
Qualifies(legA, legB) ==
    /\ PresentPositive(legA)
    /\ PresentPositive(legB)
    /\ legA[1] + legB[1] < One
    /\ ~DecLess(SpreadFormula(legA[1], One - legB[1]), min_spread_pct)

Qualifies1 == Qualifies(lim_prices.yes_ask, poly_prices.no_ask)

Qualifies2 == Qualifies(lim_prices.no_ask, poly_prices.yes_ask)

\* C13 (as claimed): when both scenarios qualify find_arbitrage returns the
\* one with the higher profit_pct, the first scenario on an exact tie; when
\* exactly one scenario qualifies, that one is returned.
C13_BestOfQualifying ==
    best # Pending =>
        /\ (Qualifies1 /\ Qualifies2) =>
              /\ best \in {Scenario1, Scenario2}
              /\ ~DecLess(best.profit_pct, Scenario1.profit_pct)
              /\ ~DecLess(best.profit_pct, Scenario2.profit_pct)
              /\ Scenario1.profit_pct = Scenario2.profit_pct
                    => best = Scenario1
        /\ (Qualifies1 /\ ~Qualifies2) => best = Scenario1
        /\ (Qualifies2 /\ ~Qualifies1) => best = Scenario2

-----------------------------------------------------------------------------
(* Properties of the engine's other methods *)

\* C14: calculate_spread(p, p) = 0 for a positive p, calculate_spread is
\* symmetric in its two arguments, and with an absent, zero or negative
\* argument both orders give 0.
C14_SpreadSymmetric ==
    spread_ret # Pending =>
        /\ spread_ret = calculate_spread(spread_p2, spread_p1)
        /\ (PresentPositive(spread_p1) /\ spread_p1 = spread_p2)
              => spread_ret = DecZero
        /\ (~PresentPositive(spread_p1) \/ ~PresentPositive(spread_p2))
              => spread_ret = DecZero

\* calculate_spread returned a non-zero spread for two different positive
\* prices
C14_Witness ==
    /\ spread_ret # Pending
    /\ spread_ret # DecZero
    /\ spread_p1 = <<300>>
    /\ spread_p2 = <<650>>

\* num / den (den > 0) rounded to an integer, ties away from zero
RoundHalfUp(num, den) == Sign(num) * ((2 * Abs(num) + den) \div (2 * den))

\* C15 (as claimed): calculate_bet_size returns
\* max_bet * (1 - slippage / 100) / 2 rounded half-up to cents (4.985 gives
\* 4.99), whatever opportunity is passed.
C15_RoundsHalfUp ==
    \A i \in 1..Len(bets) :
        bets[i] = RoundHalfUp(max_bet * (SlipScale - slippage), 2 * SlipScale)

\* C16: calculate_bet_size gives the same amount on every call of one
\* engine, and for a non-negative max_bet it does not grow with the
\* slippage tolerance: slippage <= s2 implies betSize(slippage) >=
\* betSize(s2), rounding included.
C16_BetSizeMonotone ==
    /\ \A i, j \in 1..Len(bets) : bets[i] = bets[j]
    /\ max_bet >= 0 =>
          \A i \in 1..Len(bets) : \A s2 \in SlippageVals :
              slippage <= s2
                 => bets[i] >= calculate_bet_size(max_bet, s2, Absent)

\* two calls on an engine with max_bet 10.00 and slippage 0.3 %, where
\* rounding makes the amount equal to that of slippage 0.5 %
C16_Witness ==
    /\ Len(bets) = 2
    /\ max_bet = 1000
    /\ slippage = 30
    /\ bets[1] = calculate_bet_size(max_bet, 50, Absent)
    /\ bets[1] > calculate_bet_size(max_bet, 100, Absent)

\* C17: estimate_profit returns bet_size * 2 / total_cost - bet_size * 2
\* rounded to the nearest cent, and for 0 < total_cost < 1 and
\* bet_size >= 0 the result is not negative.
C17_ProfitNonNegative ==
    profit # Pending =>
        /\ profit.kind = "value"
        /\ 2 * Abs(profit.v * est_cost
                     - (2 * est_bet * One - 2 * est_bet * est_cost))
              <= Abs(est_cost)
        /\ (0 < est_cost /\ est_cost < One /\ est_bet >= 0) => profit.v >= 0

\* estimate_profit returned 1.76 for total_cost 0.85 and 4.98 per leg
C17_Witness ==
    /\ profit # Pending
    /\ est_cost = 850
    /\ est_bet = 498
    /\ profit.v = 176

-----------------------------------------------------------------------------
(* Properties of the market monitor *)

\* the lists the two fetches returned
LimList == lim_fetch.ret.v

PolyList == poly_fetch.ret.v

ParsedLim(m) == parse_strike_and_time(GetTitle(m, "title"))

ParsedPoly(m) == parse_strike_and_time(GetTitle(m, "question"))

\* both titles parse, to the same time slot, with strikes within the threshold
Pairable(lm, pm) ==
    /\ ParsedLim(lm) # None
    /\ ParsedPoly(pm) # None
    /\ ParsedLim(lm)[2] = ParsedPoly(pm)[2]
    /\ Abs(ParsedLim(lm)[1] - ParsedPoly(pm)[1]) <= max_strike_diff

\* the positions of the matches that pair lm with pm
MatchesOf(lm, pm) ==
    {k \in 1..Len(matches) :
        matches[k].limitless = lm /\ matches[k].polymarket = pm}

\* C18: every match find_matching_markets returns pairs a venue-A market
\* with a venue-B market of the fetched lists whose titles parse to the
\* same time slot, records strike_diff = |strikeA - strikeB| (= |strikeB -
\* strikeA|), and has strike_diff <= max_strike_diff; a pair whose
\* difference equals the threshold is among the matches.
C18_MatchesWithinThreshold ==
    mon_pc = "returned" =>
        /\ \A k \in 1..Len(matches) :
              LET m == matches[k]
                  a == ParsedLim(m.limitless)
                  b == ParsedPoly(m.polymarket)
              IN  /\ \E i \in 1..Len(LimList) : LimList[i] = m.limitless
                  /\ \E j \in 1..Len(PolyList) : PolyList[j] = m.polymarket
                  /\ a # None /\ b # None
                  /\ a[2] = b[2] /\ m.time = a[2]
                  /\ m.strike_limitless = a[1]
                  /\ m.strike_polymarket = b[1]
                  /\ m.strike_diff = Abs(a[1] - b[1])
                  /\ m.strike_diff = Abs(b[1] - a[1])
                  /\ m.strike_diff <= max_strike_diff
        /\ \A i \in 1..Len(LimList) : \A j \in 1..Len(PolyList) :
              (/\ Pairable(LimList[i], PolyList[j])
               /\ Abs(ParsedLim(LimList[i])[1] - ParsedPoly(PolyList[j])[1])
                     = max_strike_diff)
                 => MatchesOf(LimList[i], PolyList[j]) # {}

\* a returned match whose strikes differ by exactly the 200.00 threshold
C18_Witness ==
    /\ mon_pc = "returned"
    /\ max_strike_diff = 20000
    /\ \E k \in 1..Len(matches) : matches[k].strike_diff = 20000

\* the index pairs (i, j) of the fetched lists that hold the markets lm, pm
PairsOf(lm, pm) ==
    {ij \in (1..Len(LimList)) \X (1..Len(PolyList)) :
        LimList[ij[1]] = lm /\ PolyList[ij[2]] = pm}

\* the index pairs whose markets share a slot with strikes within the
\* threshold
PairableIndexes ==
    {ij \in (1..Len(LimList)) \X (1..Len(PolyList)) :
        Pairable(LimList[ij[1]], PolyList[ij[2]])}

\* C19: when both fetches returned lists, every pair of a venue-A and a
\* venue-B market of one time slot with strikes within the threshold is
\* emitted exactly once per occurrence in the lists, and nothing else is
\* emitted; a market can be in several matches (no deduplication, no
\* closest-only choice).
C19_MatchingComplete ==
    (mon_pc = "returned" /\ ~AnyFetchFailed(lim_fetch.ret, poly_fetch.ret)) =>
        /\ Len(matches) = Cardinality(PairableIndexes)
        /\ \A ij \in PairableIndexes :
              Cardinality(MatchesOf(LimList[ij[1]], PolyList[ij[2]]))
                 = Cardinality(PairsOf(LimList[ij[1]], PolyList[ij[2]]))

\* one venue-A market ($100 at 14:00) was matched with two venue-B markets
\* of its slot, the equal strike and the one 200.00 away
C19_Witness ==
    /\ mon_pc = "returned"
    /\ Len(matches) = 2
    /\ matches[1].limitless = matches[2].limitless
    /\ matches[1].strike_diff = 0
    /\ matches[2].strike_diff = 20000

\* C20: when either fetch failed, find_matching_markets returns an empty
\* list whatever the other fetch returned, and it does not raise; both
\* fetch tasks are started before either outcome is known, so a failing
\* fetch does not keep the other from starting.
C20_FetchFailureGivesEmpty ==
    /\ mon_pc \in {"idle", "gathering", "returned"}
    /\ (mon_pc = "returned" /\ AnyFetchFailed(lim_fetch.ret, poly_fetch.ret))
          => matches = <<>>
    /\ mon_pc # "idle" => lim_fetch.state # "none" /\ poly_fetch.state # "none"
    /\ lim_fetch.state = "done" => poly_fetch.state \in {"running", "done"}
    /\ poly_fetch.state = "done" => lim_fetch.state \in {"running", "done"}

\* venue A's fetch failed, venue B's returned two markets, and the call
\* returned
C20_Witness ==
    /\ mon_pc = "returned"
    /\ lim_fetch.ret = FetchError
    /\ poly_fetch.ret.kind = "list"
    /\ Len(poly_fetch.ret.v) = 2
    /\ matches = <<>>

\* the markets of a list whose title yields both a strike and a time slot
RECURSIVE Parsable(_, _)
Parsable(markets, title_key) ==
    IF markets = <<>> THEN <<>>
    ELSE (IF parse_strike_and_time(GetTitle(markets[1], title_key)) = None
          THEN <<>> ELSE <<markets[1]>>)
         \o Parsable(Tail(markets), title_key)

\* C21: a market whose title (or question) does not yield both a strike and
\* a time slot is in no returned match, and the returned list is the one
\* find_matching_markets gives for the same fetches without such markets;
\* the call returns, with or without them.
C21_UnparsableDropped ==
    mon_pc = "returned" =>
        /\ \A k \in 1..Len(matches) :
              /\ ParsedLim(matches[k].limitless) # None
              /\ ParsedPoly(matches[k].polymarket) # None
        /\ ~AnyFetchFailed(lim_fetch.ret, poly_fetch.ret) =>
              matches = MatchMarkets(Fetched(Parsable(LimList, "title")),
                                     Fetched(Parsable(PolyList, "question")),
                                     max_strike_diff)

\* each venue returned a market without a strike or time slot ahead of a
\* market that pairs, and the pair was matched
C21_Witness ==
    /\ mon_pc = "returned"
    /\ Len(matches) = 1
    /\ Len(LimList) = 2 /\ ParsedLim(LimList[1]) = None
    /\ Len(PolyList) = 2 /\ ParsedPoly(PolyList[1]) = None

\* the first position of venue A's list whose market parses to time_slot
FirstSeen(time_slot) ==
    CHOOSE i \in 1..Len(LimList) :
        /\ ParsedLim(LimList[i]) # None
        /\ ParsedLim(LimList[i])[2] = time_slot
        /\ \A j \in 1..(i - 1) :
              ParsedLim(LimList[j]) = None
                 \/ ParsedLim(LimList[j])[2] # time_slot

\* C22: the returned matches are ordered by the position at which their
\* time slot first appears in venue A's list: no match of a slot that
\* appears later comes before a match of a slot that appears earlier.
C22_SlotOrder ==
    mon_pc = "returned" =>
        \A k1, k2 \in 1..Len(matches) :
            k1 < k2 =>
                FirstSeen(matches[k1].time) <= FirstSeen(matches[k2].time)

\* venue A listed its 15:00 market before its 14:00 market, and the 15:00
\* match came first
C22_Witness ==
    /\ mon_pc = "returned"
    /\ Len(matches) = 2
    /\ matches[1].time = <<"1", "5", ":", "0", "0">>
    /\ matches[2].time = <<"1", "4", ":", "0", "0">>

-----------------------------------------------------------------------------
(* Properties of the cache *)

\* task t is at the step of get that looks the key up
AtGetCheck(t) == running = t /\ ctask[t].pc = "get" /\ ctask[t].op = "get"

\* C23: get returns the value of an entry at every instant before the
\* entry's expiry and leaves the cache as it is; at or after the expiry it
\* returns None and the entry is gone from the cache once it has returned;
\* for a key without entry it returns None.
C23_GetBeforeAndAfterExpiry ==
    [][\A t \in CacheTasks :
          LET key == ctask[t].key
          IN  /\ (AtGetCheck(t) /\ ctask'[t] # ctask[t]) =>
                    IF HasEntry(cache, key) /\ clock < cache[key][1].expires_at
                    THEN /\ ctask'[t].ret = Returned(cache[key][1].value)
                         /\ ctask'[t].pc = "idle"
                         /\ cache' = cache
                    ELSE IF HasEntry(cache, key)
                    THEN /\ ctask'[t].pc = "get_locked"
                         /\ cache' = cache
                    ELSE /\ ctask'[t].ret = Returned("None")
                         /\ ctask'[t].pc = "idle"
                         /\ cache' = cache
              /\ (ctask[t].pc = "get_locked" /\ ctask[t].op = "get"
                     /\ ctask'[t] # ctask[t]) =>
                    /\ ctask'[t].ret = Returned("None")
                    /\ ctask'[t].pc = "idle"
                    /\ cache' = [cache EXCEPT ![key] = None]]_vars

\* a get of k1 found the entry set with ttl 1 expired at the instant of its
\* expiry and is about to evict it, while k2's entry is still live
C23_Witness ==
    /\ ctask[1].op = "get"
    /\ ctask[1].pc = "get_locked"
    /\ ctask[1].key = "k1"
    /\ cache["k1"] = <<CacheEntry("v1", 1)>>
    /\ cache["k2"] = <<CacheEntry("v2", 2)>>
    /\ clock = 1

\* task t is at the write of a set called as such (not by get_or_fetch)
AtSetWrite(t) ==
    running = t /\ ctask[t].pc = "set_locked" /\ ctask[t].op = "set"

\* the ttl the claim gives a set: the one passed, the default when omitted
ClaimedTtl(ttl) == IF ttl = None THEN DefaultTtl ELSE ttl[1]

\* C24: set(key, value, ttl) leaves under key an entry with that value and
\* the expiry now + ttl for every ttl passed, 0 included, and now + the
\* default TTL when ttl is omitted, whatever was there before; the entry of
\* every other key stays as it was.
C24_SetOverwritesWithTtl ==
    [][\A t \in CacheTasks :
          (AtSetWrite(t) /\ ctask'[t] # ctask[t]) =>
              cache' = [cache EXCEPT ![ctask[t].key] =
                           <<CacheEntry(ctask[t].value,
                                        clock + ClaimedTtl(ctask[t].ttl))>>]]_vars

\* task t is at the lookup that opens get_or_fetch
AtFetchLookup(t) ==
    running = t /\ ctask[t].pc = "get" /\ ctask[t].op = "get_or_fetch"

\* C25: get_or_fetch returns the value of a live entry, None included,
\* without invoking the producer; without a live entry it invokes the
\* producer once, and when the producer has returned it stores the value
\* under the key with the default TTL and returns it.
C25_FetchOnlyWithoutLiveEntry ==
    [][\A t \in CacheTasks :
          LET key == ctask[t].key
          IN  /\ (AtFetchLookup(t) /\ ctask'[t] # ctask[t]) =>
                    IF HasEntry(cache, key) /\ clock < cache[key][1].expires_at
                    THEN /\ ctask'[t].ret = Returned(cache[key][1].value)
                         /\ ctask'[t].pc = "idle"
                         /\ fetches' = fetches
                    ELSE IF HasEntry(cache, key)
                    THEN ctask'[t].pc = "get_locked" /\ fetches' = fetches
                    ELSE ctask'[t].pc = "fetching" /\ fetches' = fetches + 1
              /\ (ctask[t].pc = "get_locked" /\ ctask[t].op = "get_or_fetch"
                     /\ ctask'[t] # ctask[t]) =>
                    ctask'[t].pc = "fetching" /\ fetches' = fetches + 1
              /\ (ctask[t].pc = "set_locked" /\ ctask[t].op = "get_or_fetch"
                     /\ ctask'[t] # ctask[t]) =>
                    /\ cache' = [cache EXCEPT ![key] =
                                    <<CacheEntry(ctask[t].value,
                                                 clock + DefaultTtl)>>]
                    /\ ctask'[t].ret = Returned(ctask[t].value)
                    /\ fetches' = fetches]_vars

\* C26: a get_or_fetch that finishes leaves the value its own producer
\* returned under the key, whatever another call stored there in the
\* meantime: after two concurrent calls for one missing key, both of which
\* invoked the producer, the key holds the value of the call that finished
\* last.
C26_LastFinisherWins ==
    [][\A t \in CacheTasks :
          (ctask[t].pc = "set_locked" /\ ctask[t].op = "get_or_fetch"
              /\ ctask'[t] # ctask[t]) =>
              /\ HasEntry(cache', ctask[t].key)
              /\ cache'[ctask[t].key][1].value = ctask[t].value
              /\ ctask'[t].pc = "idle"]_vars

\* the only two calls made were get_or_fetch calls for k1, missing then;
\* no time has passed, the producer was invoked twice, task 2 got v2 and
\* task 1, finishing last, got v1, which is what k1 holds
C26_Witness ==
    /\ ncalls = 2
    /\ fetches = 2
    /\ clock = 0
    /\ ctask[1] = IdleTask(Returned("v1"))
    /\ ctask[2] = IdleTask(Returned("v2"))
    /\ cache["k1"] = <<CacheEntry("v1", DefaultTtl)>>
    /\ ~HasEntry(cache, "k2")

\* the keys whose entry has its expiry at or before the instant t_now
PastExpiry(t_now) ==
    {k \in CacheKeys : cache[k] # None /\ cache[k][1].expires_at <= t_now}

\* C27: cleanup_expired removes exactly the entries whose expiry is at or
\* before the instant the call read the clock, leaves every other entry as
\* it was, and returns the number of entries it removed.
C27_CleanupExact ==
    [][\A t \in CacheTasks :
          (ctask[t].pc = "cleanup_locked" /\ ctask'[t] # ctask[t]) =>
              /\ \A k \in CacheKeys :
                    cache'[k] = IF k \in PastExpiry(ctask[t].now) THEN None
                                ELSE cache[k]
              /\ ctask'[t].ret =
                    Counted(Cardinality(PastExpiry(ctask[t].now)))]_vars

\* a cleanup_expired at instant 1 removed k1's entry, expiring at that
\* instant, kept k2's live entry and returned 1
C27_Witness ==
    /\ ctask[1] = IdleTask(Counted(1))
    /\ clock = 1
    /\ ~HasEntry(cache, "k1")
    /\ cache["k2"] = <<CacheEntry("v2", 2)>>
    /\ ncalls = 3

\* the tasks inside a critical section of the cache
InCritical(t) ==
    ctask[t].pc \in {"get_locked", "set_locked", "invalidate_locked",
                     "clear_locked", "cleanup_locked"}

\* C28: at most one task is inside a critical section of set, invalidate,
\* clear, cleanup_expired or get's eviction, and it holds the lock; no
\* other task runs while it is inside, and every key has either no entry or
\* one complete entry, a value with an expiry.
C28_MutuallyExclusive ==
    /\ \A t \in CacheTasks :
          InCritical(t) => cache_lock = t /\ running = t
    /\ \A t1, t2 \in CacheTasks :
          (InCritical(t1) /\ InCritical(t2)) => t1 = t2
    /\ (cache_lock # 0) => InCritical(cache_lock)
    /\ \A k \in CacheKeys :
          \/ cache[k] = None
          \/ /\ Len(cache[k]) = 1
             /\ DOMAIN cache[k][1] = {"value", "expires_at"}
             /\ cache[k][1].value \in CacheValues
             /\ cache[k][1].expires_at \in 0..(MaxTime + DefaultTtl)

\* task 1 is inside set's critical section, about to overwrite k1, while
\* task 2 waits for its producer to fill the same key
C28_Witness ==
    /\ ctask[1].pc = "set_locked"
    /\ ctask[1].op = "set"
    /\ ctask[1].key = "k1"
    /\ cache_lock = 1
    /\ HasEntry(cache, "k1")
    /\ ctask[2].pc = "fetching"
    /\ ctask[2].key = "k1"

-----------------------------------------------------------------------------
(* Properties of the driver *)

\* C29: scan cycles never overlap: whenever cycle n+1 has been started,
\* cycle n is over: its scan_and_execute has returned, which it does only
\* after its match finding and each of its process_match tasks, execution
\* attempt included, has returned.
C29_CyclesDoNotOverlap ==
    \A n \in 1..Len(cycles) :
        n < Len(cycles) => cycles[n].pc = "done"

\* the second cycle has a pair at its execution attempt while the first,
\* which executed a trade, is over
C29_Witness ==
    /\ Len(cycles) = 2
    /\ cycles[1].pc = "done"
    /\ stats.trades_executed = 1
    /\ cycles[2].pc = "processing"
    /\ cycles[2].pairs[1].pc = "executing"

\* pair i of cycle n has a step of its own to take
PairCanStep(n, i) ==
    \/ ENABLED QuotesRaise(n, i)
    \/ ENABLED ExecutionRaises(n, i)

\* C30: within a cycle a process_match task that has not returned can
\* always take its next step, whatever happened to the other pairs; a step
\* of one pair leaves the other pairs as they are, a pair that returned is
\* not processed again, and the cycle ends only when every one of its pairs
\* has returned.
C30_PairsIndependent ==
    /\ [](\A n \in 1..Len(cycles) :
             cycles[n].pc = "processing" =>
                 \A i \in 1..Len(cycles[n].pairs) :
                     cycles[n].pairs[i].pc # "done" => PairCanStep(n, i))
    /\ [][\A n \in 1..Len(cycles) :
             LET before == cycles[n].pairs
                 after  == cycles'[n].pairs
             IN  cycles[n].pc = "processing" =>
                     IF cycles'[n].pc = "processing"
                     THEN /\ Len(after) = Len(before)
                          /\ \A i \in 1..Len(before) :
                                before[i].pc = "done" => after[i] = before[i]
                          /\ \A i, j \in 1..Len(before) :
                                (after[i] # before[i] /\ after[j] # before[j])
                                    => i = j
                     ELSE \A i \in 1..Len(before) :
                              before[i].pc = "done"]_vars

\* both pairs of a cycle have returned: the first without an opportunity,
\* the second after a successful execution
C30_Witness ==
    /\ Len(cycles) = 1
    /\ cycles[1].pc = "processing"
    /\ cycles[1].pairs = <<DonePair(FALSE), DonePair(TRUE)>>
    /\ stats.opportunities_found = 1
    /\ stats.trades_successful = 1

-----------------------------------------------------------------------------
(* Properties of the whole bot *)

\* C31 (as claimed): with the venue clients of the repository behind the
\* executor, an attempt whose token resolution succeeded and whose legs
\* both ran to their end within the timeout, at venues that accept what
\* they are sent, returns success = true with both confirmations present.
C31_SuccessWithRealClients ==
    (ReturnedNormally /\ result # <<>>) =>
        /\ result[1].success = TRUE
        /\ both_filled(result[1])

\* the pairs that are at their execution attempt: execute_arbitrage was
\* called with the pair's opportunity and submits its two legs
Executing ==
    {p \in UNION {{cycles[n].pairs[i] : i \in 1..Len(cycles[n].pairs)} :
                     n \in 1..Len(cycles)} : p.pc = "executing"}

\* the ask a quote carries for a side
AskOf(quote, side) == IF side = "YES" THEN quote.yes_ask ELSE quote.no_ask

\* C32: a pair reaches its execution attempt, where its orders are
\* submitted, only with both quotes of that processing present and with
\* the opportunity find_arbitrage returned for them; the two legs carry the
\* asks of those quotes for their sides, and the asks sum to less than 1.0.
C32_OrdersOnlyForOpportunity ==
    \A p \in Executing :
        /\ p.lim_prices # None /\ p.poly_prices # None
        /\ p.opportunity.kind = "opp"
        /\ p.opportunity =
              find_arbitrage(min_spread_pct, p.lim_prices[1], p.poly_prices[1])
        /\ <<p.opportunity.limitless_price>> =
              AskOf(p.lim_prices[1], p.opportunity.limitless_side)
        /\ <<p.opportunity.polymarket_price>> =
              AskOf(p.poly_prices[1], p.opportunity.polymarket_side)
        /\ p.opportunity.limitless_price + p.opportunity.polymarket_price < One

\* a pair is at its execution attempt with NO at 0.40 on venue A and YES at
\* 0.50 on venue B
C32_Witness ==
    \E p \in Executing :
        /\ p.opportunity.limitless_side = "NO"
        /\ p.opportunity.limitless_price = 400
        /\ p.opportunity.polymarket_price = 500

\* task t is inside a get, its own or the one that opens get_or_fetch
InGet(t) == ctask[t].pc \in {"get", "get_locked"}

\* C33: a get never removes a live entry: the entry a get is about to
\* evict is still the expired one it saw, whatever sets the other tasks
\* made, and a step of a get leaves every live entry as it is.
C33_GetKeepsLiveEntries ==
    /\ [](\A t \in CacheTasks :
             ctask[t].pc = "get_locked" =>
                 /\ HasEntry(cache, ctask[t].key)
                 /\ clock >= cache[ctask[t].key][1].expires_at)
    /\ [][\A t \in CacheTasks :
             (InGet(t) /\ ctask'[t] # ctask[t]) =>
                 \A k \in CacheKeys :
                     (HasEntry(cache, k) /\ clock < cache[k][1].expires_at)
                         => cache'[k] = cache[k]]_vars

\* task 1 found k1's entry expired and is about to evict it, while task 2
\* waits for its producer to fill k1 and will set it afterwards
C33_Witness ==
    /\ ctask[1].pc = "get_locked"
    /\ ctask[1].key = "k1"
    /\ HasEntry(cache, "k1")
    /\ ctask[2].pc = "fetching"
    /\ ctask[2].key = "k1"

\* C34 (as claimed): for a maximum total stake that is not negative and a
\* slippage tolerance between 0 % and 100 %, twice the amount
\* calculate_bet_size returns, rounding included, is at most max_bet.
C34_StakeWithinMaxBet ==
    (max_bet >= 0 /\ slippage >= 0 /\ slippage <= 100 * 100) =>
        \A i \in 1..Len(bets) : 2 * bets[i] <= max_bet


\* pair i of cycle n receives in this step a result of execute_arbitrage
\* with this success flag
ResultHandled(n, i, success) ==
    /\ PairAt(n, i, "executing")
    /\ cycles'[n].pc = "processing"
    /\ cycles'[n].pairs[i] = DonePair(success)
    /\ stats'.trades_executed = stats.trades_executed + 1

\* C35: with pairs processed concurrently, trades_executed is always the sum
\* of trades_successful and trades_failed and is at most
\* opportunities_found (the counter update follows an execution's return
\* without a suspension, so no observable point lies between the two), and
\* trades_successful grows, by one, exactly in the steps in which a pair
\* receives a result with success = true.
C35_BookkeepingConsistent ==
    /\ [](/\ stats.trades_executed =
                 stats.trades_successful + stats.trades_failed
          /\ stats.trades_executed <= stats.opportunities_found)
    /\ [][LET handled(success) ==
                  \E n \in 1..Len(cycles) :
                      \E i \in 1..Len(cycles[n].pairs) :
                          ResultHandled(n, i, success)
          IN  /\ handled(TRUE) <=>
                     stats'.trades_successful = stats.trades_successful + 1
              /\ ~handled(TRUE) =>
                     stats'.trades_successful = stats.trades_successful
              /\ handled(FALSE) =>
                     stats'.trades_failed = stats.trades_failed + 1]_vars

\* one trade succeeded, one failed, and a further pair with a counted
\* opportunity is still waiting for its execution
C35_Witness ==
    /\ stats.trades_successful = 1
    /\ stats.trades_failed = 1
    /\ stats.opportunities_found = 3
    /\ \E n \in 1..Len(cycles) : \E i \in 1..Len(cycles[n].pairs) :
           PairAt(n, i, "executing")

====
